---- MODULE Spec2Model ----
(***************************************************************************)
(* Operation orchestrator of green_power_ledger: the intent front-door     *)
(* (handleMint / handleTransfer / handleBurn), the step executor           *)
(* (BaseOperation.execute and the per-kind step routines), the ledger      *)
(* submission and validation wait (submitTransaction, waitForValidation)   *)
(* and the background ValidationPoller, over the operations and            *)
(* operation_steps tables.                                                 *)
(*                                                                         *)
(* The process is a single-threaded event loop: every action below is the  *)
(* code that runs between one await and the next.                          *)
(***************************************************************************)
EXTENDS Integers, Sequences, FiniteSets, TLC

\* ---------------------------------------------------------------- bounds
NumRequests == 2
NumKeys == 2
NumCalls == 3

MaxPeriods == 2

MaxDepth == 2
NumRows == 11
MaxSweeps == 3
MaxErrors == 2

Requests == 1..NumRequests
Keys == 1..NumKeys
Types == {"mint", "transfer", "burn"}

\* ------------------------------------------------------ program constants
InlineTimeoutMs == 15000
InlinePollIntervalMs == 2000
PollerTimeoutMs == 0
SweepLimit == 10
MaxStepNo == 3

\* ------------------------------------------------------------ enumerations
OperationStatus == {"PENDING", "IN_PROGRESS", "SUCCESS", "FAILED"}

StepStatus ==
  {"PENDING", "SUBMITTED", "PENDING_VALIDATION", "VALIDATED_SUCCESS",
   "VALIDATED_FAILED", "TIMEOUT"}

ValidationStatus == {"success", "failed", "timeout"}

\* Result codes a validated transaction can carry.
TransactionResults == {"tesSUCCESS", "tecNO_AUTH"}

VARIABLES
  req,        \* per HTTP request: position in the handler and its response
  operations, \* operations table, keyed by the uuid the handler generated
  steps,      \* operation_steps table: per operation, rows ordered by step_no
  exec,       \* per operation: the background execute() task
  ledger,     \* the external ledger, per transaction hash
  poller,     \* the ValidationPoller sweep task
  locks,      \* WalletLockManager.locks: per wallet, the lock promise stored
  reactions,  \* per lock promise: the withLock calls suspended on it, in order
  jobs,       \* the promise job (microtask) queue of the lock manager's calls
  call,       \* per withLock call: its position, wallet and outcome
  clock,      \* event counter stamping call, start and end of each call
  cache,      \* SecretCache.cache: per wallet id, the cached secret and expiry
  wallets,    \* wallets table: per wallet id, the encrypted secret columns
  now,        \* Date.now(), in milliseconds
  secretCall, \* the WalletSecretManager call in progress and its result
  stored,     \* per wallet id, the plaintext last written by storeSecret
  logger,     \* the Logger call in progress and what it has emitted
  wait,       \* one waitForValidation call: its arguments, position, result
  rows,       \* operation_steps as the poller sees it, with real timestamps
  sweep       \* the ValidationPoller over rows: its flag, timer and sweep

serverVars == <<req, operations, steps, exec, ledger, poller>>

lockVars == <<locks, reactions, jobs, call, clock>>

secretVars == <<cache, wallets, now, secretCall, stored>>

logVars == <<logger>>

waitVars == <<wait>>

tableVars == <<rows, sweep>>

libraryVars == <<lockVars, secretVars, logVars, waitVars, tableVars>>

vars == <<serverVars, libraryVars>>

\* ------------------------------------------------------------- step recipes
\* Steps created by the three handlers: number of steps and signer of each.
StepCount(type) ==
  CASE type = "mint" -> 3
    [] type = "transfer" -> 2
    [] type = "burn" -> 1

\* Wallet that signs the step (the seed the step routine loads).
\* Requests carry fixed wallets: mint to user u1, transfer from u1 to u2,
\* burn by the issuer.
Signer(type, stepNo) ==
  CASE type = "mint" /\ stepNo = 2 -> "u1"
    [] type = "mint" -> "issuer"
    [] type = "transfer" /\ stepNo = 1 -> "u2"
    [] type = "transfer" -> "u1"
    [] type = "burn" -> "issuer"

\* ------------------------------------------------------------------ rows
NoOperation == [present |-> FALSE]

NullMessage == [step |-> 0, text |-> "NULL"]

NewOperation(key, type) ==
  [present |-> TRUE,
   idempotency_key |-> key,
   type |-> type,
   status |-> "PENDING",
   issuance_id |-> IF type = "mint" THEN "NULL" ELSE "MPT",
   error_message |-> NullMessage]

NewStep(stepNo) ==
  [step_no |-> stepNo,
   status |-> "PENDING",
   tx_hash |-> 0,
   validated_result |-> "NULL",
   last_checked_at |-> "NULL"]

\* Hash of the transaction a step submits (0 is the null tx_hash).
TxHash(o, stepNo) == (o - 1) * MaxStepNo + stepNo

Hashes == 1..(NumRequests * MaxStepNo)

OperationIds == {o \in Requests : operations[o].present}

\* SELECT ... FROM operations WHERE idempotency_key = key
RowsByKey(key) ==
  {o \in OperationIds : operations[o].idempotency_key = key}

\* ------------------------------------------------------------- front door
\* Fields the handler of each kind requires in the request body.
RequiredFields(type) ==
  CASE type = "mint" -> {"idempotencyKey", "userWalletId", "amount"}
    [] type = "transfer" ->
         {"idempotencyKey", "fromWalletId", "toWalletId", "issuanceId", "amount"}
    [] type = "burn" ->
         {"idempotencyKey", "issuerWalletId", "holderWalletId", "issuanceId",
          "amount"}

\* Fields handleMint refuses.
DeprecatedFields == {"issuerWalletId", "assetScale", "maximumAmount", "transferFee"}

\* Request bodies, as the set of fields they carry with a truthy value: the
\* complete body, the complete body less one required field, and for a mint
\* the complete body plus one deprecated field (the other handlers do not
\* look at extra fields).
Bodies(type) ==
  {RequiredFields(type)}
    \cup {RequiredFields(type) \ {f} : f \in RequiredFields(type)}
    \cup IF type = "mint"
           THEN {RequiredFields(type) \cup {d} : d \in DeprecatedFields}
           ELSE {}

\* A validation that forgets the deprecated fields.
Rejected_RequiredOnly(type, fields) == ~(RequiredFields(type) \subseteq fields)

\* The two validation tests of the handlers.
Rejected(type, fields) ==
  \/ ~(RequiredFields(type) \subseteq fields)
  \/ type = "mint" /\ fields \cap DeprecatedFields # {}

NoResponse == [code |-> 0, operationId |-> 0, status |-> "NONE"]

BadRequest == [code |-> 400, operationId |-> 0, status |-> "NONE"]

\* A replay answered with the status the operation was created with.
ExistingResponse_CreationStatus(o) ==
  [code |-> 200, operationId |-> o, status |-> "PENDING"]

ExistingResponse(o) ==
  [code |-> 200, operationId |-> o, status |-> operations[o].status]

CreatedResponse(o) ==
  [code |-> 201, operationId |-> o, status |-> "PENDING"]

ErrorResponse == [code |-> 500, operationId |-> 0, status |-> "NONE"]

\* The operations table without its unique constraint.
UniqueViolation_NoConstraint(key) == FALSE

\* UNIQUE constraint on operations.idempotency_key: the insert is refused.
UniqueViolation(key) == RowsByKey(key) # {}

IdleExec ==
  [pc |-> "idle", idx |-> 0, snapshot |-> <<>>, txHash |-> 0,
   elapsed |-> 0, vstatus |-> "none", vresult |-> "NULL", vmeta |-> FALSE,
   opStatus |-> "NONE", opMessage |-> NullMessage, ended |-> "no"]

Finish(r, response) ==
  req' = [req EXCEPT ![r].pc = "done", ![r].response = response]

\* The body is parsed: the handler validates it and answers 400, or goes on
\* to look the key up.
HandleValidate(r) ==
  /\ req[r].pc = "validate"
  /\ IF Rejected(req[r].type, req[r].fields)
       THEN Finish(r, BadRequest)
       ELSE req' = [req EXCEPT ![r].pc = "check"]
  /\ UNCHANGED <<operations, steps, exec, ledger, poller, libraryVars>>

\* A replay that hands the stored operation to the executor again.
HandleCheckKey_Reexecutes(r) ==
  /\ req[r].pc = "check"
  /\ IF RowsByKey(req[r].key) # {}
       THEN \E o \in RowsByKey(req[r].key) :
              /\ Finish(r, ExistingResponse(o))
              /\ exec' = [exec EXCEPT ![o] =
                   IF @.pc = "done"
                     THEN [IdleExec EXCEPT !.pc = "updateOperationStatus",
                                           !.opStatus = "IN_PROGRESS"]
                     ELSE @]
       ELSE /\ req' = [req EXCEPT ![r].pc = "insertOperation"]
            /\ UNCHANGED exec
  /\ UNCHANGED <<operations, steps, ledger, poller, libraryVars>>

\* A lookup that only finds operations of the handler's own kind.
HandleCheckKey_ByKind(r) ==
  /\ req[r].pc = "check"
  /\ IF \E o \in RowsByKey(req[r].key) : operations[o].type = req[r].type
       THEN \E o \in RowsByKey(req[r].key) : Finish(r, ExistingResponse(o))
       ELSE req' = [req EXCEPT ![r].pc = "insertOperation"]
  /\ UNCHANGED <<operations, steps, exec, ledger, poller, libraryVars>>

\* getOperationByKey, then the early return on an existing operation.
HandleCheckKey(r) ==
  /\ req[r].pc = "check"
  /\ IF RowsByKey(req[r].key) # {}
       THEN \E o \in RowsByKey(req[r].key) : Finish(r, ExistingResponse(o))
       ELSE req' = [req EXCEPT ![r].pc = "insertOperation"]
  /\ UNCHANGED <<operations, steps, exec, ledger, poller, libraryVars>>

\* INSERT INTO operations; a unique violation is thrown into the handler's
\* catch, which answers 500.
HandleInsertOperation(r) ==
  /\ req[r].pc = "insertOperation"
  /\ IF UniqueViolation(req[r].key)
       THEN /\ Finish(r, ErrorResponse)
            /\ UNCHANGED operations
       ELSE /\ operations' =
                 [operations EXCEPT ![r] = NewOperation(req[r].key, req[r].type)]
            /\ req' = [req EXCEPT ![r].pc = "insertStep"]
  /\ UNCHANGED <<steps, exec, ledger, poller, libraryVars>>

\* INSERT INTO operation_steps, one row per await; after the last row the
\* handler starts execute() in the background and answers 201.
HandleInsertStep(r) ==
  /\ req[r].pc = "insertStep"
  /\ Len(steps[r]) < StepCount(req[r].type)
  /\ steps' = [steps EXCEPT ![r] = Append(@, NewStep(Len(@) + 1))]
  /\ IF Len(steps'[r]) = StepCount(req[r].type)
       THEN /\ exec' = [exec EXCEPT ![r] =
                 [IdleExec EXCEPT !.pc = "updateOperationStatus",
                                  !.opStatus = "IN_PROGRESS"]]
            /\ Finish(r, CreatedResponse(r))
       ELSE UNCHANGED <<req, exec>>
  /\ UNCHANGED <<operations, ledger, poller, libraryVars>>

\* ---------------------------------------------------------------- ledger
NotOnLedger == [state |-> "absent", result |-> "NULL", mpt_issuance_id |-> FALSE]

\* client.request({command: 'tx'}): what one lookup reports.
Lookup(h) == ledger[h]

\* The while condition of waitForValidation.
WithinBudget(elapsed, timeoutMs) == elapsed < timeoutMs

\* A classification that takes a transaction not yet validated for failed.
Classify_PendingFails(tx) ==
  IF tx.state = "validated" /\ tx.result = "tesSUCCESS" THEN "success" ELSE "failed"

\* A classification that takes every validated transaction for a success.
Classify_AnyValidated(tx) ==
  IF tx.state = "validated" THEN "success" ELSE "none"

\* Classification of a lookup inside waitForValidation: "none" when the
\* lookup shows nothing validated (the loop sleeps and goes on).
Classify(tx) ==
  IF tx.state = "validated"
    THEN IF tx.result = "tesSUCCESS" THEN "success" ELSE "failed"
    ELSE "none"

\* What client.request can throw: the not-found sentinel or another error.
LookupErrors == {"txnNotFound", "other"}

\* A catch block that takes a thrown lookup for a failed transaction.
LookupOutcome_ErrorFails(tx, error) ==
  IF error # "none" THEN "failed" ELSE Classify(tx)

\* One pass through the try block of waitForValidation's loop: a thrown
\* lookup is caught (and logged unless it is txnNotFound) and the loop
\* sleeps and goes on, as for a transaction not yet validated.
LookupOutcome(tx, error) ==
  IF error # "none" THEN "none" ELSE Classify(tx)

\* The ledger validates a submitted transaction with some result code. Only
\* an issuance creation carries an issuance id in its metadata, and it may
\* be missing from what the node returns.
LedgerValidate(h) ==
  /\ ledger[h].state = "pending"
  /\ \E result \in TransactionResults, meta \in BOOLEAN :
       /\ meta => (result = "tesSUCCESS" /\ h % MaxStepNo = 1)
       /\ ledger' = [ledger EXCEPT ![h] =
            [state |-> "validated", result |-> result, mpt_issuance_id |-> meta]]
  /\ UNCHANGED <<req, operations, steps, exec, poller, libraryVars>>

\* ------------------------------------------------------------ the executor
\* An update that writes tx_hash whether or not one was supplied.
UpdateStepStatus_ClearsHash(row, status, txHash, validatedResult) ==
  [row EXCEPT
     !.status = status,
     !.tx_hash = txHash,
     !.validated_result = IF validatedResult # "NULL" THEN validatedResult ELSE @,
     !.last_checked_at = "SET"]

\* BaseOperation.updateStepStatus: status and last_checked_at are always
\* written, tx_hash and validated_result only when supplied (0 / "NULL" are
\* the falsy "not supplied").
UpdateStepStatus(row, status, txHash, validatedResult) ==
  [row EXCEPT
     !.status = status,
     !.tx_hash = IF txHash # 0 THEN txHash ELSE @,
     !.validated_result = IF validatedResult # "NULL" THEN validatedResult ELSE @,
     !.last_checked_at = "SET"]

\* BaseOperation.updateOperationStatus: status and error_message (null when
\* no message is passed).
UpdateOperationStatus(row, status, message) ==
  [row EXCEPT !.status = status, !.error_message = message]

\* The executor's test after a step routine has returned.
StepFailed(status) == status \in {"VALIDATED_FAILED", "TIMEOUT"}

\* First await of the step routine: executeIssuerMint goes straight to
\* submitTransaction, the others first load a seed, an address or the
\* issuance id.
FirstAwait(type, stepNo) ==
  IF type = "mint" /\ stepNo = 1 THEN "autofill" ELSE "prepare"

\* The skip test inverted: only completed steps are run again.
ToRun_SkipInverted(snapshot, i) ==
  {j \in i..Len(snapshot) : snapshot[j] = "VALIDATED_SUCCESS"}

\* Indexes >= i of the loaded steps that are not skipped.
ToRun(snapshot, i) ==
  {j \in i..Len(snapshot) : snapshot[j] # "VALIDATED_SUCCESS"}

Min(S) == CHOOSE x \in S : \A y \in S : x <= y

\* The for loop of execute() from index i on: skip VALIDATED_SUCCESS steps,
\* start the routine of the first other step, or, past the last step, set
\* the operation to SUCCESS.
LoopFrom(e, type, i) ==
  IF ToRun(e.snapshot, i) = {}
    THEN [e EXCEPT !.pc = "updateOperationStatus", !.idx = 0,
                   !.opStatus = "SUCCESS", !.opMessage = NullMessage,
                   !.txHash = 0, !.elapsed = 0, !.vstatus = "none",
                   !.vresult = "NULL", !.vmeta = FALSE]
    ELSE [e EXCEPT !.pc = FirstAwait(type, Min(ToRun(e.snapshot, i))),
                   !.idx = Min(ToRun(e.snapshot, i)),
                   !.txHash = 0, !.elapsed = 0, !.vstatus = "none",
                   !.vresult = "NULL", !.vmeta = FALSE]

\* A timeout branch that records the status and forgets to throw.
AfterRecord_TimeoutReturns(vstatus) ==
  IF vstatus = "failed" THEN "catch" ELSE "returned"

\* Where the step routine goes once it has recorded the validation outcome:
\* FAILED and TIMEOUT throw into the routine's catch block.
AfterRecord(vstatus) ==
  IF vstatus = "success" THEN "returned" ELSE "catch"

\* The routine's catch block rethrows; execute() has no handler, so the
\* background task ends rejected.
Thrown(e) == [e EXCEPT !.pc = "done", !.ended = "thrown"]

Running(o) == operations[o].present /\ exec[o].pc \notin {"idle", "done"}

\* await this.updateOperationStatus(...): IN_PROGRESS at the start, SUCCESS
\* after the loop, FAILED on a failed step.
ExecUpdateOperationStatus(o) ==
  /\ Running(o)
  /\ exec[o].pc = "updateOperationStatus"
  /\ operations' = [operations EXCEPT ![o] =
       UpdateOperationStatus(@, exec[o].opStatus, exec[o].opMessage)]
  /\ exec' = [exec EXCEPT ![o] =
       IF exec[o].opStatus = "IN_PROGRESS"
         THEN [@ EXCEPT !.pc = "getSteps", !.opStatus = "NONE"]
         ELSE [@ EXCEPT !.pc = "done", !.ended = "returned"]]
  /\ UNCHANGED <<req, steps, ledger, poller, libraryVars>>

\* const steps = await this.getSteps(), then the loop.
ExecGetSteps(o) ==
  /\ Running(o)
  /\ exec[o].pc = "getSteps"
  /\ exec' = [exec EXCEPT ![o] =
       LoopFrom([@ EXCEPT !.snapshot =
                   [i \in 1..Len(steps[o]) |-> steps[o][i].status]],
                operations[o].type, 1)]
  /\ UNCHANGED <<req, operations, steps, ledger, poller, libraryVars>>

\* A preparation that does not look at the issuance id.
Prepared_AnyIssuance(found, issuanceId) == found

\* The reads succeed: the wallet is found and getMPTIssuanceId finds a
\* non-null issuance_id.
Prepared(found, issuanceId) == found /\ issuanceId # "NULL"

\* retrieveSecret / getUserAddress / getWalletAddress / getMPTIssuanceId:
\* the reads before the transaction is built. A missing wallet or a null
\* issuance id throws into the catch block.
ExecPrepare(o) ==
  /\ Running(o)
  /\ exec[o].pc = "prepare"
  /\ \E found \in BOOLEAN :
       exec' = [exec EXCEPT ![o].pc =
         IF Prepared(found, operations[o].issuance_id)
           THEN "autofill" ELSE "catch"]
  /\ UNCHANGED <<req, operations, steps, ledger, poller, libraryVars>>

\* submitTransaction: await client.autofill(transaction).
ExecAutofill(o) ==
  /\ Running(o)
  /\ exec[o].pc = "autofill"
  /\ \E ok \in BOOLEAN :
       exec' = [exec EXCEPT ![o].pc = IF ok THEN "submit" ELSE "catch"]
  /\ UNCHANGED <<req, operations, steps, ledger, poller, libraryVars>>

\* submitTransaction: wallet.sign, await client.submit(blob), return the hash.
ExecSubmit(o) ==
  /\ Running(o)
  /\ exec[o].pc = "submit"
  /\ \/ /\ ledger' = [ledger EXCEPT ![TxHash(o, exec[o].idx)] =
               [NotOnLedger EXCEPT !.state = "pending"]]
        /\ exec' = [exec EXCEPT ![o].pc = "recordSubmitted",
                                ![o].txHash = TxHash(o, exec[o].idx)]
     \/ /\ exec' = [exec EXCEPT ![o].pc = "catch"]
        /\ UNCHANGED ledger
  /\ UNCHANGED <<req, operations, steps, poller, libraryVars>>

\* updateStepStatus(SUBMITTED, {txHash, submitResult}), then waitForValidation
\* starts its clock and issues the first lookup.
ExecRecordSubmitted(o) ==
  /\ Running(o)
  /\ exec[o].pc = "recordSubmitted"
  /\ steps' = [steps EXCEPT ![o][exec[o].idx] =
       UpdateStepStatus(@, "SUBMITTED", exec[o].txHash, "NULL")]
  /\ exec' = [exec EXCEPT ![o].elapsed = 0,
       ![o].pc = IF WithinBudget(0, InlineTimeoutMs) THEN "lookup" ELSE "record",
       ![o].vstatus = IF WithinBudget(0, InlineTimeoutMs) THEN "none" ELSE "timeout"]
  /\ UNCHANGED <<req, operations, ledger, poller, libraryVars>>

\* One round of waitForValidation's loop: the lookup, and when it shows
\* nothing validated the sleep and the next test of the budget.
ExecLookup(o) ==
  /\ Running(o)
  /\ exec[o].pc = "lookup"
  /\ \E error \in {"none"} \cup LookupErrors :
       LET tx == Lookup(exec[o].txHash)
           later == exec[o].elapsed + InlinePollIntervalMs
           outcome == LookupOutcome(tx, error)
       IN exec' = [exec EXCEPT ![o] =
            IF outcome # "none"
              THEN [@ EXCEPT !.pc = "record", !.vstatus = outcome,
                             !.vresult = tx.result, !.vmeta = tx.mpt_issuance_id,
                             !.elapsed = 0]
              ELSE IF WithinBudget(later, InlineTimeoutMs)
                THEN [@ EXCEPT !.elapsed = later]
                ELSE [@ EXCEPT !.pc = "record", !.vstatus = "timeout",
                               !.elapsed = 0]]
  /\ UNCHANGED <<req, operations, steps, ledger, poller, libraryVars>>

\* Status a step routine writes for a validation outcome.
RecordedStatus(vstatus) ==
  CASE vstatus = "success" -> "VALIDATED_SUCCESS"
    [] vstatus = "failed" -> "VALIDATED_FAILED"
    [] vstatus = "timeout" -> "PENDING_VALIDATION"

\* The update after waitForValidation has returned and what follows it in
\* the routine: on success executeIssuerMint extracts the issuance id and
\* saves it when there is one; a routine that returns hands over to
\* execute(), which re-reads the step.
ExecRecord(o) ==
  /\ Running(o)
  /\ exec[o].pc = "record"
  /\ steps' = [steps EXCEPT ![o][exec[o].idx] =
       UpdateStepStatus(@, RecordedStatus(exec[o].vstatus), 0,
         IF exec[o].vstatus = "timeout" THEN "NULL" ELSE exec[o].vresult)]
  /\ exec' = [exec EXCEPT ![o].pc =
       IF AfterRecord(exec[o].vstatus) = "catch" THEN "catch"
       ELSE IF operations[o].type = "mint" /\ exec[o].idx = 1 /\ exec[o].vmeta
         THEN "saveIssuance"
         ELSE "getStepById"]
  /\ UNCHANGED <<req, operations, ledger, poller, libraryVars>>

\* UPDATE operations SET issuance_id (executeIssuerMint only). The query
\* runs inside the routine's try block: when the pool rejects it the catch
\* block runs.
ExecSaveIssuance(o) ==
  /\ Running(o)
  /\ exec[o].pc = "saveIssuance"
  /\ \/ /\ operations' = [operations EXCEPT ![o].issuance_id = "MPT"]
        /\ exec' = [exec EXCEPT ![o].pc = "getStepById"]
     \/ /\ exec' = [exec EXCEPT ![o].pc = "catch"]
        /\ UNCHANGED operations
  /\ UNCHANGED <<req, steps, ledger, poller, libraryVars>>

\* The routine's catch block: updateStepStatus(VALIDATED_FAILED), rethrow.
ExecCatch(o) ==
  /\ Running(o)
  /\ exec[o].pc = "catch"
  /\ steps' = [steps EXCEPT ![o][exec[o].idx] =
       UpdateStepStatus(@, "VALIDATED_FAILED", 0, "NULL")]
  /\ exec' = [exec EXCEPT ![o] = Thrown(@)]
  /\ UNCHANGED <<req, operations, ledger, poller, libraryVars>>

\* getStepById after the routine returned: a failed step fails the
\* operation, otherwise the loop goes on.
ExecGetStepById(o) ==
  /\ Running(o)
  /\ exec[o].pc = "getStepById"
  /\ exec' = [exec EXCEPT ![o] =
       IF StepFailed(steps[o][exec[o].idx].status)
         THEN [@ EXCEPT !.pc = "updateOperationStatus", !.opStatus = "FAILED",
                 !.opMessage = [step |-> exec[o].idx,
                                text |-> steps[o][exec[o].idx].status]]
         ELSE LoopFrom(@, operations[o].type, exec[o].idx + 1)]
  /\ UNCHANGED <<req, operations, steps, ledger, poller, libraryVars>>

\* ------------------------------------------------------------- the poller
PendingValidation ==
  {<<o, k>> \in Requests \X (1..MaxStepNo) :
     /\ k <= Len(steps[o])
     /\ steps[o][k].status = "PENDING_VALIDATION"
     /\ steps[o][k].tx_hash # 0}

\* Sequences over S without repetition of length n.
Orderings(S, n) ==
  {q \in [1..n -> S] : \A i, j \in 1..n : i # j => q[i] # q[j]}

MinOf(a, b) == IF a <= b THEN a ELSE b

\* poll(): the SELECT of up to 10 PENDING_VALIDATION rows with a tx_hash.
\* Every such row has been stamped by updateStepStatus, so their order is
\* the order of those stamps, which the model leaves open.
PollerPoll ==
  /\ poller.pc = "idle"
  /\ PendingValidation # {}
  /\ \E q \in Orderings(PendingValidation,
                        MinOf(SweepLimit, Cardinality(PendingValidation))) :
       poller' = [pc |-> "checkStep", queue |-> q]
  /\ UNCHANGED <<req, operations, steps, exec, ledger, libraryVars>>

\* What checkStep's waitForValidation(tx_hash, 0, 0) returns: one lookup
\* when the loop is entered, timeout otherwise.
PollerValidation(h) ==
  IF WithinBudget(0, PollerTimeoutMs) /\ Classify(Lookup(h)) # "none"
    THEN Classify(Lookup(h))
    ELSE "timeout"

AllValidatedSuccess(stepRows) ==
  \A i \in 1..Len(stepRows) : stepRows[i].status = "VALIDATED_SUCCESS"

\* checkStep for the next selected row.
PollerCheckStep ==
  /\ poller.pc = "checkStep"
  /\ LET o == Head(poller.queue)[1]
         k == Head(poller.queue)[2]
         h == steps[o][k].tx_hash
         v == PollerValidation(h)
     IN /\ steps' = [steps EXCEPT ![o][k] =
             CASE v = "success" ->
                    [@ EXCEPT !.status = "VALIDATED_SUCCESS",
                              !.validated_result = Lookup(h).result,
                              !.last_checked_at = "SET"]
               [] v = "failed" ->
                    [@ EXCEPT !.status = "VALIDATED_FAILED",
                              !.validated_result = Lookup(h).result,
                              !.last_checked_at = "SET"]
               [] OTHER -> [@ EXCEPT !.last_checked_at = "SET"]]
        /\ operations' = [operations EXCEPT ![o] =
             CASE v = "success" /\ AllValidatedSuccess(steps'[o]) ->
                    [@ EXCEPT !.status = "SUCCESS"]
               [] v = "failed" ->
                    [@ EXCEPT !.status = "FAILED",
                              !.error_message =
                                [step |-> k, text |-> "validation failed"]]
               [] OTHER -> @]
  /\ poller' = IF Len(poller.queue) = 1
                 THEN [pc |-> "idle", queue |-> <<>>]
                 ELSE [poller EXCEPT !.queue = Tail(@)]
  /\ UNCHANGED <<req, exec, ledger, libraryVars>>

\* ------------------------------------------------------ waitForValidation
\* The two ways the program calls waitForValidation: the step routines with
\* the defaults, the poller with (0, 0).
PollerPollIntervalMs == 0

WaitArguments ==
  {[timeoutMs |-> InlineTimeoutMs, pollIntervalMs |-> InlinePollIntervalMs],
   [timeoutMs |-> PollerTimeoutMs, pollIntervalMs |-> PollerPollIntervalMs]}

NoReport == [error |-> "none", state |-> "none", result |-> "NULL"]

\* A call about to be made for txHash. reports is the list of what the
\* lookups of this call have reported or thrown, in order.
NewWait(txHash, arguments) ==
  [pc |-> "called", txHash |-> txHash,
   timeoutMs |-> arguments.timeoutMs,
   pollIntervalMs |-> arguments.pollIntervalMs,
   elapsed |-> 0, reports |-> <<>>,
   status |-> "none", transactionResult |-> "NULL"]

\* No waitForValidation call under observation.
NoWait == wait = [NewWait(0, [timeoutMs |-> 0, pollIntervalMs |-> 0])
                    EXCEPT !.pc = "none"]

\* The call starts its clock and tests the budget for the first time.
WaitStart ==
  /\ wait.pc = "called"
  /\ wait' = IF WithinBudget(0, wait.timeoutMs)
               THEN [wait EXCEPT !.pc = "lookup"]
               ELSE [wait EXCEPT !.pc = "returned", !.status = "timeout"]
  /\ UNCHANGED <<serverVars, lockVars, secretVars, logVars, tableVars>>

\* await client.request({command: 'tx'}) settles: the call returns on a
\* validated transaction and goes to sleep otherwise.
WaitLookup ==
  /\ wait.pc = "lookup"
  /\ \E error \in {"none"} \cup LookupErrors :
       LET tx == Lookup(wait.txHash)
           outcome == LookupOutcome(tx, error)
           report == IF error # "none"
                       THEN [NoReport EXCEPT !.error = error]
                       ELSE [error |-> "none", state |-> tx.state,
                             result |-> tx.result]
       IN wait' =
            IF outcome # "none"
              THEN [wait EXCEPT !.pc = "returned",
                                !.status = outcome,
                                !.transactionResult = tx.result,
                                !.reports = Append(@, report)]
              ELSE [wait EXCEPT !.pc = "sleep",
                                !.reports = Append(@, report)]
  /\ UNCHANGED <<serverVars, lockVars, secretVars, logVars, tableVars>>

\* The sleep of pollIntervalMs ends and the budget is tested again.
WaitSleep ==
  /\ wait.pc = "sleep"
  /\ LET later == wait.elapsed + wait.pollIntervalMs
     IN wait' = IF WithinBudget(later, wait.timeoutMs)
                  THEN [wait EXCEPT !.pc = "lookup", !.elapsed = later]
                  ELSE [wait EXCEPT !.pc = "returned", !.elapsed = later,
                                    !.status = "timeout"]
  /\ UNCHANGED <<serverVars, lockVars, secretVars, logVars, tableVars>>

\* ------------------------------------- the poller on a table of many steps
\* The operation_steps rows the poller's SELECT ranges over. Each row is the
\* submitted step of an operation of its own; operation_status is the status
\* column of that operation. last_checked_at is a reading of NOW(), NullStamp
\* for SQL NULL. passed_over counts the sweeps that left the row out since it
\* was last stamped.
RowIds == 1..NumRows

NullStamp == 0

\* updateStepStatus stamps last_checked_at with every write, so the rows are
\* stamped in the order in which they became PENDING_VALIDATION.
NewRow(i) ==
  [status |-> "PENDING_VALIDATION", tx_hash |-> i, validated_result |-> "NULL",
   last_checked_at |-> i, operation_status |-> "IN_PROGRESS",
   passed_over |-> 0]

NoCheck == [row |-> 0, state |-> "none", failed |-> FALSE]

\* The poller after start(): no sweep in progress. checked describes the most
\* recent checkStep call: its row, what the ledger held and whether it threw.
NoSweep ==
  [pc |-> "idle", queue |-> <<>>, isRunning |-> TRUE, clock |-> NumRows,
   sweeps |-> 0, errors |-> 0, checked |-> NoCheck]

TableIdle ==
  /\ rows = [i \in RowIds |-> NewRow(i)]
  /\ sweep = [NoSweep EXCEPT !.isRunning = FALSE]

\* WHERE status = 'PENDING_VALIDATION' AND tx_hash IS NOT NULL
TableEligible ==
  {i \in RowIds : rows[i].status = "PENDING_VALIDATION" /\ rows[i].tx_hash # 0}

\* An ordering that puts the most recently checked rows first.
Older_NewestFirst(i, j) ==
  \/ rows[i].last_checked_at > rows[j].last_checked_at
  \/ rows[i].last_checked_at = rows[j].last_checked_at /\ i < j

\* ORDER BY last_checked_at ASC NULLS FIRST (rows with equal stamps by id).
Older(i, j) ==
  \/ rows[i].last_checked_at = NullStamp /\ rows[j].last_checked_at # NullStamp
  \/ /\ rows[j].last_checked_at # NullStamp
     /\ rows[i].last_checked_at < rows[j].last_checked_at
  \/ rows[i].last_checked_at = rows[j].last_checked_at /\ i < j

Oldest(S) == CHOOSE i \in S : \A j \in S \ {i} : Older(i, j)

\* The first n rows of S in that order: LIMIT n.
RECURSIVE Selection(_, _)
Selection(S, n) ==
  IF S = {} \/ n = 0 THEN <<>>
  ELSE <<Oldest(S)>> \o Selection(S \ {Oldest(S)}, n - 1)

Range(q) == {q[k] : k \in 1..Len(q)}

\* poll(): the timer fires while the poller runs; the SELECT fixes the rows
\* of this sweep, and an empty result ends it at once.
TablePoll ==
  /\ sweep.pc = "idle"
  /\ sweep.isRunning
  /\ sweep.sweeps < MaxSweeps
  /\ LET selected == Selection(TableEligible, SweepLimit)
     IN /\ sweep' = [sweep EXCEPT
                       !.pc = IF selected = <<>> THEN "idle" ELSE "checkStep",
                       !.queue = selected,
                       !.sweeps = @ + 1]
        /\ rows' = [i \in RowIds |->
             IF i \in TableEligible \ Range(selected)
               THEN [rows[i] EXCEPT !.passed_over = @ + 1]
               ELSE rows[i]]
  /\ UNCHANGED <<serverVars, lockVars, secretVars, logVars, waitVars>>

\* What the ledger can hold for a transaction when the poller looks.
LedgerViews ==
  {NotOnLedger, [NotOnLedger EXCEPT !.state = "pending"]} \cup
  {[state |-> "validated", result |-> result, mpt_issuance_id |-> FALSE] :
     result \in TransactionResults}

\* A poller that fails a step when the transaction is not validated.
TableValidation_PendingFails(tx) ==
  IF tx.state = "validated" THEN "timeout" ELSE "failed"

\* waitForValidation(step.tx_hash, 0, 0) for a transaction the ledger holds
\* as tx.
TableValidation(tx) ==
  IF WithinBudget(0, PollerTimeoutMs) /\ Classify(tx) # "none"
    THEN Classify(tx)
    ELSE "timeout"

\* The three branches of checkStep on the row it was given.
TableChecked(row, vstatus, tx, stamp) ==
  IF vstatus = "success"
    THEN [row EXCEPT !.status = "VALIDATED_SUCCESS",
                     !.validated_result = tx.result,
                     !.last_checked_at = stamp,
                     !.operation_status = "SUCCESS",
                     !.passed_over = 0]
  ELSE IF vstatus = "failed"
    THEN [row EXCEPT !.status = "VALIDATED_FAILED",
                     !.validated_result = tx.result,
                     !.last_checked_at = stamp,
                     !.operation_status = "FAILED",
                     !.passed_over = 0]
  ELSE [row EXCEPT !.last_checked_at = stamp, !.passed_over = 0]

\* A loop that gives up the sweep when a check throws.
Remaining_Abort(queue, failed) ==
  IF failed THEN <<>> ELSE Tail(queue)

\* for (const step of steps) await this.checkStep(step): checkStep catches
\* what it throws, so the loop goes on to the next row either way.
Remaining(queue, failed) == Tail(queue)

\* One checkStep call settles for the row at the head of the sweep. It
\* throws (the ledger client or the UPDATE fails, nothing is written) or
\* takes the branch of the validation status. The loop then goes on to the
\* next selected row.
TableCheckStep ==
  /\ sweep.pc = "checkStep"
  /\ \E failed \in BOOLEAN, tx \in LedgerViews :
       LET i == Head(sweep.queue)
           stamp == sweep.clock + 1
           rest == Remaining(sweep.queue, failed)
       IN /\ failed => sweep.errors < MaxErrors
          /\ rows' = IF failed THEN rows
                     ELSE [rows EXCEPT ![i] =
                             TableChecked(@, TableValidation(tx), tx, stamp)]
          /\ sweep' = [sweep EXCEPT
                         !.pc = IF rest = <<>> THEN "idle" ELSE "checkStep",
                         !.queue = rest,
                         !.clock = stamp,
                         !.errors = IF failed THEN @ + 1 ELSE @,
                         !.checked = [row |-> i, state |-> tx.state,
                                      failed |-> failed]]
  /\ UNCHANGED <<serverVars, lockVars, secretVars, logVars, waitVars>>

\* stop(): the timer is cleared and isRunning is lowered.
TableStop ==
  /\ sweep.isRunning
  /\ sweep' = [sweep EXCEPT !.isRunning = FALSE]
  /\ UNCHANGED <<rows, serverVars, lockVars, secretVars, logVars, waitVars>>

\* ------------------------------------------------- the wallet lock manager
\* WalletLockManager: withLock(walletId, fn). No step routine calls it; its
\* callers are the phase-3 test script and whatever code imports the
\* singleton. Each action is one promise job or one
\* synchronous call; other code may run, and call withLock, between any two
\* jobs.
Calls == 1..NumCalls

WalletIds == {"w1", "w2"}

\* A call not made yet: its wallet, the call whose function makes it (0 when
\* it is made from outside any locked function) and whether that function
\* awaits it.
NotCalled(walletId, parent, awaited) ==
  [pc |-> "notCalled", walletId |-> walletId, parent |-> parent,
   awaited |-> awaited, outcome |-> "none",
   calledAt |-> 0, startedAt |-> 0, endedAt |-> 0]

Completed == {"returned", "threw"}

isLocked(walletId) == locks[walletId] # 0

getLockedCount == Cardinality({w \in WalletIds : isLocked(w)})

\* A test that never finds the lock taken.
Blocked_Never(c) == FALSE

\* A test that lets a call pass the lock held by the function that made it.
Blocked_Reentrant(c) ==
  /\ locks[call[c].walletId] # 0
  /\ locks[call[c].walletId] # call[c].parent

\* while (this.locks.has(walletId))
Blocked(c) == locks[call[c].walletId] # 0

\* The loop test and the code after it up to the next suspension: await the
\* stored promise, or store a new promise and call fn. cs is the call table
\* and t the clock on entry.
Enter(c, cs, t) ==
  IF Blocked(c)
    THEN /\ reactions' =
              [reactions EXCEPT ![locks[cs[c].walletId]] = Append(@, c)]
         /\ call' = [cs EXCEPT ![c].pc = "awaitLock"]
         /\ clock' = t
         /\ UNCHANGED locks
    ELSE /\ locks' = [locks EXCEPT ![cs[c].walletId] = c]
         /\ call' = [cs EXCEPT ![c].pc = "fn", ![c].startedAt = t + 1]
         /\ clock' = t + 1
         /\ UNCHANGED reactions

\* A caller invokes withLock; a nested call is made by its parent's function
\* while that function runs.
withLock(c) ==
  /\ call[c].pc = "notCalled"
  /\ call[c].parent # 0 => call[call[c].parent].pc = "fn"
  /\ Enter(c, [call EXCEPT ![c].calledAt = clock + 1], clock + 1)
  /\ UNCHANGED <<jobs, serverVars, secretVars, logVars, waitVars, tableVars>>

\* The promise returned by fn settles, by return or by throw; the
\* continuation of `await fn()` is queued. A function that awaits a nested
\* call settles only after that call has completed.
FnSettles(c) ==
  /\ call[c].pc = "fn"
  /\ \A d \in Calls :
       (call[d].parent = c /\ call[d].awaited) => call[d].pc \in Completed
  /\ \E outcome \in Completed :
       call' = [call EXCEPT ![c].pc = "awaitFn", ![c].outcome = outcome,
                            ![c].endedAt = clock + 1]
  /\ clock' = clock + 1
  /\ jobs' = Append(jobs, [kind |-> "finally", call |-> c])
  /\ UNCHANGED <<locks, reactions, serverVars, secretVars, logVars, waitVars, tableVars>>

\* A release that is skipped when fn threw (no finally block).
Deletes_OnlyOnReturn(outcome) == outcome = "returned"

\* finally { this.locks.delete(walletId) ... }: on either outcome.
Deletes(outcome) == outcome \in Completed

\* The job after `await fn()`: the finally block deletes the entry and
\* resolves the lock promise, which queues the calls suspended on it in the
\* order they suspended; withLock returns or rethrows.
Finally(c) ==
  /\ jobs # <<>>
  /\ Head(jobs) = [kind |-> "finally", call |-> c]
  /\ locks' = IF Deletes(call[c].outcome)
                THEN [locks EXCEPT ![call[c].walletId] = 0]
                ELSE locks
  /\ jobs' = Tail(jobs) \o
       [i \in 1..Len(reactions[c]) |-> [kind |-> "resume", call |-> reactions[c][i]]]
  /\ reactions' = [reactions EXCEPT ![c] = <<>>]
  /\ call' = [d \in Calls |->
       IF d = c THEN [call[d] EXCEPT !.pc = call[c].outcome]
       ELSE IF \E i \in 1..Len(reactions[c]) : reactions[c][i] = d
         THEN [call[d] EXCEPT !.pc = "woken"]
         ELSE call[d]]
  /\ UNCHANGED <<clock, serverVars, secretVars, logVars, waitVars, tableVars>>

\* The job of a call whose awaited lock promise resolved: the loop tests
\* the map again.
Resume(c) ==
  /\ jobs # <<>>
  /\ Head(jobs) = [kind |-> "resume", call |-> c]
  /\ jobs' = Tail(jobs)
  /\ Enter(c, call, clock)
  /\ UNCHANGED <<serverVars, secretVars, logVars, waitVars, tableVars>>

\* clearAll(): this.locks.clear(), called by code outside the locked
\* functions between two jobs; the stored promises and the calls suspended
\* on them are not touched.
clearAll ==
  /\ \E w \in WalletIds : locks[w] # 0
  /\ locks' = [w \in WalletIds |-> 0]
  /\ UNCHANGED <<reactions, jobs, call, clock, serverVars, secretVars, logVars, waitVars, tableVars>>

\* The lock manager with no call made.
NoCalls ==
  /\ locks = [w \in WalletIds |-> 0]
  /\ reactions = [c \in Calls |-> <<>>]
  /\ jobs = <<>>
  /\ clock = 0

\* ------------------------------------------------- the secret manager
\* The reserved id, a user wallet with a row, and an id with no row.
WalletNames == {"issuer", "u1", "u2"}

\* Plaintexts: the seed the wallet was created with and two later ones.
Secrets == {"s0", "sA", "sB"}

\* process.env.ISSUER_SEED
IssuerSeed == "sIssuer"

\* randomBytes(IV_LENGTH)
Ivs == {"iv1", "iv2"}

\* Default of SECRET_CACHE_TTL_MS, and the period of the cleanup timer.
TtlMs == 3600000

CleanupIntervalMs == 60000

\* The instants at which the clock is observed: the start, and one
\* millisecond before, at and after every multiple of the TTL.
Instants ==
  {0} \cup {t \in {k * TtlMs + j : k \in 0..MaxPeriods, j \in {-1, 0, 1}} :
              t >= 0}

NoEntry == [present |-> FALSE, secret |-> "none", expiresAt |-> 0]

NullCipher == [of |-> "NULL", iv |-> "NULL"]

NullContext == [iv |-> "NULL", authTag |-> NullCipher]

NoRow ==
  [present |-> FALSE, encrypted_secret |-> NullCipher,
   encryption_context |-> NullContext]

\* AES-256-GCM under the master key: the ciphertext and the tag are
\* determined by the plaintext and the IV.
encrypt(plaintext, iv) ==
  [ciphertext |-> [of |-> plaintext, iv |-> iv],
   iv |-> iv,
   authTag |-> [of |-> plaintext, iv |-> iv]]

\* decipher.final() throws unless the tag belongs to the ciphertext and IV.
decrypt(encrypted) ==
  IF /\ encrypted.ciphertext.iv = encrypted.iv
     /\ encrypted.authTag = encrypted.ciphertext
     /\ encrypted.ciphertext # NullCipher
    THEN [kind |-> "returned", value |-> encrypted.ciphertext.of]
    ELSE [kind |-> "thrown", value |-> "Unsupported state or unable to authenticate data"]

Row(encrypted) ==
  [present |-> TRUE,
   encrypted_secret |-> encrypted.ciphertext,
   encryption_context |-> [iv |-> encrypted.iv, authTag |-> encrypted.authTag]]

NoResult == [kind |-> "none", value |-> "none"]

Returns(value) == [kind |-> "returned", value |-> value]

Throws(message) == [kind |-> "thrown", value |-> message]

NoSecretCall ==
  [pc |-> "idle", op |-> "none", walletId |-> "none", secret |-> "none",
   row |-> NoRow, result |-> NoResult]

\* The secret manager after construction: an empty cache, the row that
\* createUserWallet inserted for the user's wallet with its encrypted seed,
\* no row for the other ids, and no call made.
SecretsIdle ==
  /\ cache = [w \in WalletNames |-> NoEntry]
  /\ wallets = [w \in WalletNames |->
       IF w = "u1" THEN Row(encrypt("s0", "iv1")) ELSE NoRow]
  /\ now = 0
  /\ secretCall = NoSecretCall
  /\ stored = [w \in WalletNames |-> "none"]

\* An id that no test sets apart.
Reserved_None(walletId) == FALSE

\* walletId === 'issuer'
Reserved(walletId) == walletId = "issuer"

\* An expiry test that lets the entry live through its expiry instant.
Expired_Late(entry, t) == t > entry.expiresAt

\* Date.now() >= entry.expiresAt
Expired(entry, t) == t >= entry.expiresAt

\* SecretCache.clear
clear(c, walletId) == [c EXCEPT ![walletId] = NoEntry]

\* SecretCache.set
set(c, walletId, secret) ==
  [c EXCEPT ![walletId] =
     [present |-> TRUE, secret |-> secret, expiresAt |-> now + TtlMs]]

\* SecretCache.get: the value returned and the cache it leaves.
get(c, walletId) ==
  IF ~c[walletId].present
    THEN [value |-> "null", cache |-> c]
    ELSE IF Expired(c[walletId], now)
           THEN [value |-> "null", cache |-> clear(c, walletId)]
           ELSE [value |-> c[walletId].secret, cache |-> c]

\* storeSecret up to the UPDATE it awaits: the issuer is refused, any other
\* secret is encrypted under a fresh IV.
StoreSecretCall(walletId, secret) ==
  /\ secretCall.pc = "idle"
  /\ IF Reserved(walletId)
       THEN secretCall' =
              [NoSecretCall EXCEPT !.op = "storeSecret",
                                   !.walletId = walletId,
                                   !.secret = secret,
                                   !.result = Throws("Cannot store issuer secret")]
       ELSE \E iv \in Ivs :
              secretCall' =
                [NoSecretCall EXCEPT !.pc = "update",
                                     !.op = "storeSecret",
                                     !.walletId = walletId,
                                     !.secret = secret,
                                     !.row = Row(encrypt(secret, iv))]
  /\ UNCHANGED <<cache, wallets, now, stored, serverVars, lockVars, logVars, waitVars, tableVars>>

\* UPDATE wallets SET encrypted_secret, encryption_context WHERE id: a row
\* that exists is overwritten, and the cache is left as it is.
StoreSecretUpdate ==
  /\ secretCall.pc = "update"
  /\ wallets' =
       IF wallets[secretCall.walletId].present
         THEN [wallets EXCEPT ![secretCall.walletId] = secretCall.row]
         ELSE wallets
  /\ stored' = [stored EXCEPT ![secretCall.walletId] = secretCall.secret]
  /\ secretCall' = [secretCall EXCEPT !.pc = "idle", !.result = Returns("void")]
  /\ UNCHANGED <<cache, now, serverVars, lockVars, logVars, waitVars, tableVars>>

\* retrieveSecret up to the SELECT it awaits: the issuer's seed comes from
\* the environment, a cached secret is returned at once.
RetrieveSecretCall(walletId) ==
  /\ secretCall.pc = "idle"
  /\ IF Reserved(walletId)
       THEN /\ secretCall' =
                 [NoSecretCall EXCEPT !.op = "retrieveSecret",
                                      !.walletId = walletId,
                                      !.result = Returns(IssuerSeed)]
            /\ UNCHANGED cache
       ELSE LET cached == get(cache, walletId) IN
            /\ cache' = cached.cache
            /\ secretCall' =
                 IF cached.value # "null"
                   THEN [NoSecretCall EXCEPT !.op = "retrieveSecret",
                                             !.walletId = walletId,
                                             !.result = Returns(cached.value)]
                   ELSE [NoSecretCall EXCEPT !.pc = "select",
                                             !.op = "retrieveSecret",
                                             !.walletId = walletId]
  /\ UNCHANGED <<wallets, now, stored, serverVars, lockVars, logVars, waitVars, tableVars>>

\* SELECT encrypted_secret, encryption_context FROM wallets WHERE id, then
\* the two checks on its result.
RetrieveSecretSelect ==
  /\ secretCall.pc = "select"
  /\ LET row == wallets[secretCall.walletId] IN
       secretCall' =
         IF ~row.present
           THEN [secretCall EXCEPT !.pc = "idle",
                                   !.result = Throws("Wallet not found")]
           ELSE IF \/ row.encrypted_secret = NullCipher
                   \/ row.encryption_context = NullContext
                  THEN [secretCall EXCEPT
                          !.pc = "idle",
                          !.result = Throws("Wallet has no encrypted secret")]
                  ELSE [secretCall EXCEPT !.pc = "decrypt", !.row = row]
  /\ UNCHANGED <<cache, wallets, now, stored, serverVars, lockVars, logVars, waitVars, tableVars>>

\* decrypt resolves: the plaintext is put into the cache and returned.
RetrieveSecretDecrypt ==
  /\ secretCall.pc = "decrypt"
  /\ LET decrypted ==
           decrypt([ciphertext |-> secretCall.row.encrypted_secret,
                    iv |-> secretCall.row.encryption_context.iv,
                    authTag |-> secretCall.row.encryption_context.authTag])
     IN /\ secretCall' = [secretCall EXCEPT !.pc = "idle", !.result = decrypted]
        /\ cache' = IF decrypted.kind = "returned"
                      THEN set(cache, secretCall.walletId, decrypted.value)
                      ELSE cache
  /\ UNCHANGED <<wallets, now, stored, serverVars, lockVars, logVars, waitVars, tableVars>>

\* WalletSecretManager.clearCache
clearCache(walletId) ==
  /\ secretCall.pc = "idle"
  /\ cache' = clear(cache, walletId)
  /\ secretCall' = [NoSecretCall EXCEPT !.op = "clearCache",
                                        !.walletId = walletId,
                                        !.result = Returns("void")]
  /\ UNCHANGED <<wallets, now, stored, serverVars, lockVars, logVars, waitVars, tableVars>>

\* WalletSecretManager.clearAllCache
clearAllCache ==
  /\ secretCall.pc = "idle"
  /\ cache' = [w \in WalletNames |-> NoEntry]
  /\ secretCall' = [NoSecretCall EXCEPT !.op = "clearAllCache",
                                        !.result = Returns("void")]
  /\ UNCHANGED <<wallets, now, stored, serverVars, lockVars, logVars, waitVars, tableVars>>

\* SecretCache.cleanup, run by the interval timer.
cleanup ==
  /\ now >= CleanupIntervalMs
  /\ cache' = [w \in WalletNames |->
       IF cache[w].present /\ Expired(cache[w], now) THEN NoEntry ELSE cache[w]]
  /\ UNCHANGED <<wallets, now, secretCall, stored, serverVars, lockVars, logVars, waitVars, tableVars>>

\* Date.now() moves on to the next observed instant.
Tick ==
  /\ \E t \in Instants : t > now
  /\ now' = CHOOSE t \in Instants : t > now /\ \A u \in Instants : u > now => t <= u
  /\ UNCHANGED <<cache, wallets, secretCall, stored, serverVars, lockVars, logVars, waitVars, tableVars>>

\* ------------------------------------------------------------- the logger
\* enum LogLevel
DEBUG == 0

INFO == 1

WARN == 2

ERROR == 3

LogLevels == {DEBUG, INFO, WARN, ERROR}

\* Strings are sequences of characters.
UpperCase ==
  <<"A", "B", "C", "D", "E", "F", "G", "H", "I", "J", "K", "L", "M",
    "N", "O", "P", "Q", "R", "S", "T", "U", "V", "W", "X", "Y", "Z">>

LowerCase ==
  <<"a", "b", "c", "d", "e", "f", "g", "h", "i", "j", "k", "l", "m",
    "n", "o", "p", "q", "r", "s", "t", "u", "v", "w", "x", "y", "z">>

\* String.prototype.toLowerCase
toLowerCase(str) ==
  [i \in 1..Len(str) |->
     IF \E j \in 1..Len(UpperCase) : UpperCase[j] = str[i]
       THEN LowerCase[CHOOSE j \in 1..Len(UpperCase) : UpperCase[j] = str[i]]
       ELSE str[i]]

\* String.prototype.includes
includes(str, search) ==
  \E i \in 0..(Len(str) - Len(search)) :
    SubSeq(str, i + 1, i + Len(search)) = search

seed == <<"s", "e", "e", "d">>

secret == <<"s", "e", "c", "r", "e", "t">>

privateKey == <<"p", "r", "i", "v", "a", "t", "e", "K", "e", "y">>

private_key == <<"p", "r", "i", "v", "a", "t", "e", "_", "k", "e", "y">>

password == <<"p", "a", "s", "s", "w", "o", "r", "d">>

masterKey == <<"m", "a", "s", "t", "e", "r", "K", "e", "y">>

master_key == <<"m", "a", "s", "t", "e", "r", "_", "k", "e", "y">>

sensitiveKeys ==
  {seed, secret, privateKey, private_key, password, masterKey, master_key}

\* Keys of LogContext and a key that only holds a listed word.
txHash == <<"t", "x", "H", "a", "s", "h">>

walletSeed == <<"w", "a", "l", "l", "e", "t", "S", "e", "e", "d">>

ContextKeys == sensitiveKeys \cup {txHash, walletSeed}

\* A value of a context: a number, null, a string given by its length and
\* its first character, or an object given by its entries in key order.
Value(type, length, first, entries) ==
  [type |-> type, length |-> length, first |-> first, entries |-> entries]

\* The longest string that is not taken for a seed.
SeedLength == 20

Primitives ==
  {Value("number", 0, "", <<>>), Value("null", 0, "", <<>>)}
    \cup {Value("string", n, c, <<>>) :
            n \in {SeedLength, SeedLength + 1}, c \in {"s", "r"}}

RECURSIVE ValuesOfDepth(_)
ValuesOfDepth(d) ==
  IF d = 0
    THEN Primitives
    ELSE Primitives \cup
           {Value("object", 0, "", <<[key |-> k, value |-> v]>>) :
              k \in ContextKeys, v \in ValuesOfDepth(d - 1)}

\* The contexts passed to the logger: none, one entry, or one entry next
\* to the hash of a transaction.
Contexts ==
  LET hash == [key |-> txHash, value |-> Value("string", SeedLength + 1, "A", <<>>)]
      entries == {[key |-> k, value |-> v] :
                    k \in ContextKeys, v \in ValuesOfDepth(MaxDepth - 1)}
  IN {<<>>} \cup {<<e>> : e \in entries}
            \cup {<<hash, e>> : e \in entries}
            \cup {<<e, hash>> : e \in entries}

\* sensitiveKeys.some(sk => key.toLowerCase().includes(sk))
KeyIsSensitive(key) ==
  \E sk \in sensitiveKeys : includes(toLowerCase(key), sk)

\* checkObject of containsSensitiveData, on the entries of an object.
RECURSIVE checkObject(_)
checkObject(obj) ==
  \E i \in 1..Len(obj) :
    \/ KeyIsSensitive(obj[i].key)
    \/ /\ obj[i].value.type = "object"
       /\ checkObject(obj[i].value.entries)
    \/ /\ obj[i].value.type = "string"
       /\ obj[i].value.length > SeedLength
       /\ obj[i].value.first = "s"

containsSensitiveData(context) == checkObject(context)

NoOutput == [kind |-> "none", stream |-> "none", level |-> "NONE", context |-> <<>>]

RedactionNotice ==
  [kind |-> "redacted", stream |-> "stderr", level |-> "ERROR", context |-> <<>>]

LogLevelName(level) ==
  CASE level = DEBUG -> "DEBUG"
    [] level = INFO -> "INFO"
    [] level = WARN -> "WARN"
    [] level = ERROR -> "ERROR"

LogEntry(level, context) ==
  [kind |-> "entry",
   stream |-> IF level >= ERROR THEN "stderr" ELSE "stdout",
   level |-> LogLevelName(level),
   context |-> context]

NoLogCall ==
  [minLevel |-> INFO, called |-> FALSE, level |-> INFO, context |-> <<>>,
   output |-> NoOutput]

\* The logger constructed with LOG_LEVEL unset.
LoggerIdle == logger = NoLogCall

\* Logger.log on the level and context of the call: what it writes, if
\* anything.
log ==
  /\ ~logger.called
  /\ logger' =
       [logger EXCEPT
          !.called = TRUE,
          !.output =
            IF logger.level < logger.minLevel
              THEN NoOutput
              ELSE IF /\ logger.context # <<>>
                      /\ containsSensitiveData(logger.context)
                     THEN RedactionNotice
                     ELSE LogEntry(logger.level, logger.context)]
  /\ UNCHANGED <<serverVars, lockVars, secretVars, waitVars, tableVars>>

\* ------------------------------------------------------------------ system
Init ==
  /\ req \in [Requests ->
       UNION {{[pc |-> "validate", key |-> k, type |-> t, fields |-> b,
                response |-> NoResponse] : k \in Keys, b \in Bodies(t)} :
              t \in Types}]
  /\ operations = [o \in Requests |-> NoOperation]
  /\ steps = [o \in Requests |-> <<>>]
  /\ exec = [o \in Requests |-> IdleExec]
  /\ ledger = [h \in Hashes |-> NotOnLedger]
  /\ poller = [pc |-> "idle", queue |-> <<>>]
  /\ NoCalls
  /\ SecretsIdle
  /\ LoggerIdle
  /\ NoWait
  /\ TableIdle
  /\ call = [c \in Calls |-> NotCalled("w1", 0, FALSE)]

Next ==
  \/ \E r \in Requests : HandleValidate(r)
  \/ \E r \in Requests : HandleCheckKey(r)
  \/ \E r \in Requests : HandleInsertOperation(r)
  \/ \E r \in Requests : HandleInsertStep(r)
  \/ \E o \in Requests : ExecUpdateOperationStatus(o)
  \/ \E o \in Requests : ExecGetSteps(o)
  \/ \E o \in Requests : ExecPrepare(o)
  \/ \E o \in Requests : ExecAutofill(o)
  \/ \E o \in Requests : ExecSubmit(o)
  \/ \E o \in Requests : ExecRecordSubmitted(o)
  \/ \E o \in Requests : ExecLookup(o)
  \/ \E o \in Requests : ExecRecord(o)
  \/ \E o \in Requests : ExecSaveIssuance(o)
  \/ \E o \in Requests : ExecCatch(o)
  \/ \E o \in Requests : ExecGetStepById(o)
  \/ \E h \in Hashes : LedgerValidate(h)
  \/ PollerPoll
  \/ PollerCheckStep

Spec == Init /\ [][Next]_vars

\* The lock manager driven by callers, with no request submitted to the
\* server: up to NumCalls calls, each on some wallet, possibly nested.
LockInit ==
  /\ req = [r \in Requests |->
       [pc |-> "validate", key |-> 1, type |-> "burn",
        fields |-> RequiredFields("burn"), response |-> NoResponse]]
  /\ operations = [o \in Requests |-> NoOperation]
  /\ steps = [o \in Requests |-> <<>>]
  /\ exec = [o \in Requests |-> IdleExec]
  /\ ledger = [h \in Hashes |-> NotOnLedger]
  /\ poller = [pc |-> "idle", queue |-> <<>>]
  /\ NoCalls
  /\ SecretsIdle
  /\ LoggerIdle
  /\ NoWait
  /\ TableIdle
  /\ call \in
       {f \in [Calls -> {NotCalled(w, p, a) :
                           w \in WalletIds, p \in 0..NumCalls, a \in BOOLEAN}] :
          \A c \in Calls : /\ f[c].parent < c
                            /\ f[c].awaited => f[c].parent # 0}

LockNext ==
  \/ \E c \in Calls : withLock(c)
  \/ \E c \in Calls : FnSettles(c)
  \/ \E c \in Calls : Finally(c)
  \/ \E c \in Calls : Resume(c)

LockSpec == LockInit /\ [][LockNext]_vars

\* One waitForValidation call for a submitted transaction, made as a step
\* routine or as the poller makes it, while the ledger validates the
\* transaction at some point or never.
WaitInit ==
  /\ req = [r \in Requests |->
       [pc |-> "validate", key |-> 1, type |-> "burn",
        fields |-> RequiredFields("burn"), response |-> NoResponse]]
  /\ operations = [o \in Requests |-> NoOperation]
  /\ steps = [o \in Requests |-> <<>>]
  /\ exec = [o \in Requests |-> IdleExec]
  /\ \E h \in Hashes :
       /\ ledger = [g \in Hashes |->
            IF g = h THEN [NotOnLedger EXCEPT !.state = "pending"]
            ELSE NotOnLedger]
       /\ wait \in {NewWait(h, a) : a \in WaitArguments}
  /\ poller = [pc |-> "idle", queue |-> <<>>]
  /\ NoCalls
  /\ SecretsIdle
  /\ LoggerIdle
  /\ TableIdle
  /\ call = [c \in Calls |-> NotCalled("w1", 0, FALSE)]

WaitNext ==
  \/ WaitStart
  \/ WaitLookup
  \/ WaitSleep
  \/ \E h \in Hashes : LedgerValidate(h)

WaitSpec == WaitInit /\ [][WaitNext]_vars

\* The started poller on a table of more rows than one sweep takes.
TableInit ==
  /\ req = [r \in Requests |->
       [pc |-> "validate", key |-> 1, type |-> "burn",
        fields |-> RequiredFields("burn"), response |-> NoResponse]]
  /\ operations = [o \in Requests |-> NoOperation]
  /\ steps = [o \in Requests |-> <<>>]
  /\ exec = [o \in Requests |-> IdleExec]
  /\ ledger = [h \in Hashes |-> NotOnLedger]
  /\ poller = [pc |-> "idle", queue |-> <<>>]
  /\ NoCalls
  /\ SecretsIdle
  /\ LoggerIdle
  /\ NoWait
  /\ rows = [i \in RowIds |-> NewRow(i)]
  /\ sweep = NoSweep
  /\ call = [c \in Calls |-> NotCalled("w1", 0, FALSE)]

TableNext ==
  \/ TablePoll
  \/ TableCheckStep
  \/ TableStop

TableSpec == TableInit /\ [][TableNext]_vars

\* The lock manager with clearAll() among the calls made on it.
ClearNext == LockNext \/ clearAll

ClearSpec == LockInit /\ [][ClearNext]_vars

\* The secret manager driven by one caller that makes its calls one after
\* the other, with the clock and the cleanup timer running, and no request
\* submitted to the server.
SecretInit ==
  /\ req = [r \in Requests |->
       [pc |-> "validate", key |-> 1, type |-> "burn",
        fields |-> RequiredFields("burn"), response |-> NoResponse]]
  /\ operations = [o \in Requests |-> NoOperation]
  /\ steps = [o \in Requests |-> <<>>]
  /\ exec = [o \in Requests |-> IdleExec]
  /\ ledger = [h \in Hashes |-> NotOnLedger]
  /\ poller = [pc |-> "idle", queue |-> <<>>]
  /\ NoCalls
  /\ SecretsIdle
  /\ LoggerIdle
  /\ NoWait
  /\ TableIdle
  /\ call = [c \in Calls |-> NotCalled("w1", 0, FALSE)]

SecretNext ==
  \/ \E w \in WalletNames, s \in Secrets : StoreSecretCall(w, s)
  \/ StoreSecretUpdate
  \/ \E w \in WalletNames : RetrieveSecretCall(w)
  \/ RetrieveSecretSelect
  \/ RetrieveSecretDecrypt
  \/ \E w \in WalletNames : clearCache(w)
  \/ clearAllCache
  \/ cleanup
  \/ Tick

SecretSpec == SecretInit /\ [][SecretNext]_vars

\* The logger constructed under each LOG_LEVEL and about to be called with
\* each level and context, with nothing else running.
LogInit ==
  /\ req = [r \in Requests |->
       [pc |-> "validate", key |-> 1, type |-> "burn",
        fields |-> RequiredFields("burn"), response |-> NoResponse]]
  /\ operations = [o \in Requests |-> NoOperation]
  /\ steps = [o \in Requests |-> <<>>]
  /\ exec = [o \in Requests |-> IdleExec]
  /\ ledger = [h \in Hashes |-> NotOnLedger]
  /\ poller = [pc |-> "idle", queue |-> <<>>]
  /\ NoCalls
  /\ SecretsIdle
  /\ NoWait
  /\ TableIdle
  /\ logger \in {[NoLogCall EXCEPT !.minLevel = l, !.level = level,
                                    !.context = context] :
                    l \in LogLevels, level \in LogLevels, context \in Contexts}
  /\ call = [c \in Calls |-> NotCalled("w1", 0, FALSE)]

LogNext == log

LogSpec == LogInit /\ [][LogNext]_vars

\* ================================================================ claims

\* The request passes the handler's validation.
Accepted(r) == ~Rejected(req[r].type, req[r].fields)

\* Well-formed submissions carrying the key.
RequestsWithKey(key) == {r \in Requests : req[r].key = key /\ Accepted(r)}

Returned(r) == req[r].pc = "done"

\* C1: for every idempotency key at most one operation row carries it in
\* every reachable state, and once every submission carrying the key has
\* returned exactly one such row exists.
C1_OneOperationPerKey ==
  \A key \in Keys :
    /\ Cardinality(RowsByKey(key)) <= 1
    /\ (RequestsWithKey(key) # {} /\ \A r \in RequestsWithKey(key) : Returned(r))
         => Cardinality(RowsByKey(key)) = 1

\* Two submissions of one key raced past the check: one created the
\* operation, the other was refused by the unique constraint.
C1_Witness ==
  \E r1, r2 \in Requests :
    /\ r1 # r2 /\ req[r1].key = req[r2].key
    /\ Returned(r1) /\ req[r1].response.code = 201
    /\ Returned(r2) /\ req[r2].response.code = 500
    /\ Cardinality(RowsByKey(req[r1].key)) = 1

\* C2: every response to a submission carries the id of the single
\* operation holding its key (the loser of a race reads the winner and
\* returns its id, never an error).
C2_EveryResponseCarriesTheOperation ==
  \A r \in Requests :
    (Accepted(r) /\ Returned(r)) =>
      /\ req[r].response.code \in {200, 201}
      /\ req[r].response.operationId \in RowsByKey(req[r].key)

ReplayStep(r) ==
  /\ req[r].pc = "check"
  /\ req'[r].pc # "check"
  /\ RowsByKey(req[r].key) # {}

\* C3: a call whose key already belongs to a stored operation answers 200
\* with that operation's id and current status and leaves the operation
\* rows, the step rows and the executors as they were; the call that
\* created the operation answered 201 with the new id.
C3_ReplayCreatesNothing ==
  /\ [](\A o \in OperationIds :
          Returned(o) => req[o].response = [code |-> 201, operationId |-> o,
                                            status |-> "PENDING"])
  /\ [][\A r \in Requests :
          ReplayStep(r) =>
            /\ \E o \in RowsByKey(req[r].key) :
                 req'[r].response = [code |-> 200, operationId |-> o,
                                     status |-> operations[o].status]
            /\ operations' = operations
            /\ steps' = steps
            /\ exec' = exec]_vars

\* A replay answered while the operation was already past PENDING.
C3_Witness ==
  \E r1, r2 \in Requests :
    /\ req[r1].response.code = 201
    /\ req[r2].response.code = 200
    /\ req[r2].response.operationId = req[r1].response.operationId
    /\ req[r2].response.status # "PENDING"

InRoutine(o) ==
  Running(o) /\ exec[o].pc \in
    {"prepare", "autofill", "submit", "recordSubmitted", "lookup", "record",
     "saveIssuance", "catch"}

\* C4: within one operation a step leaves PENDING, or has its routine
\* started, only when every earlier step is VALIDATED_SUCCESS; after a
\* VALIDATED_FAILED step every later step is still PENDING and not started.
C4_StepsInOrder ==
  \A o \in OperationIds :
    \A j \in 1..Len(steps[o]) :
      \A i \in 1..(j - 1) :
        /\ (steps[o][j].status # "PENDING" \/ (InRoutine(o) /\ exec[o].idx = j))
             => steps[o][i].status = "VALIDATED_SUCCESS"
        /\ steps[o][i].status = "VALIDATED_FAILED"
             => (steps[o][j].status = "PENDING" /\ exec[o].idx # j)

\* A mint whose step 2 validated with a failure code: step 3 untouched.
C4_Witness ==
  \E o \in OperationIds :
    /\ Len(steps[o]) = 3
    /\ steps[o][1].status = "VALIDATED_SUCCESS"
    /\ steps[o][2].status = "VALIDATED_FAILED"
    /\ steps[o][2].validated_result = "tecNO_AUTH"
    /\ steps[o][3].status = "PENDING"
    /\ exec[o].pc = "done"

\* The executor of o is inside submitTransaction (autofill, sign, submit).
Submitting(o) == Running(o) /\ exec[o].pc \in {"autofill", "submit"}

SignerOf(o) == Signer(operations[o].type, exec[o].idx)

\* C5: for every signer at most one prepare-sign-submit sequence is in
\* flight at any moment, across all executing operations.
C5_OneSubmissionPerSigner ==
  \A a, b \in Requests :
    (a # b /\ Submitting(a) /\ Submitting(b)) => SignerOf(a) # SignerOf(b)

Complete(o) ==
  /\ Len(steps[o]) = StepCount(operations[o].type)
  /\ AllValidatedSuccess(steps[o])

\* C6: an operation whose status is SUCCESS has all its steps
\* VALIDATED_SUCCESS, and an operation whose executor has ended with all
\* steps VALIDATED_SUCCESS is SUCCESS.
C6_SuccessIffAllStepsValidated ==
  \A o \in OperationIds :
    /\ operations[o].status = "SUCCESS" => Complete(o)
    /\ (exec[o].pc = "done" /\ Complete(o)) => operations[o].status = "SUCCESS"

\* A mint run to the end: three steps VALIDATED_SUCCESS, operation SUCCESS.
C6_Witness ==
  \E o \in OperationIds :
    /\ operations[o].type = "mint"
    /\ operations[o].status = "SUCCESS"
    /\ Complete(o)
    /\ exec[o].pc = "done"

\* C7: once the executor's run has ended, an operation with a step left
\* VALIDATED_FAILED (or TIMEOUT) is FAILED and its message names that step.
C7_FailedStepFailsOperation ==
  \A o \in OperationIds :
    \A k \in 1..Len(steps[o]) :
      (exec[o].pc = "done" /\ StepFailed(steps[o][k].status))
        => /\ operations[o].status = "FAILED"
           /\ operations[o].error_message.step = k

\* C8: after a step routine whose inline wait timed out has finished, the
\* step is PENDING_VALIDATION with its tx_hash, and the routine threw.
C8_TimeoutLeavesPendingValidation ==
  \A o \in OperationIds :
    (exec[o].pc = "done" /\ exec[o].vstatus = "timeout")
      => /\ steps[o][exec[o].idx].status = "PENDING_VALIDATION"
         /\ steps[o][exec[o].idx].tx_hash = exec[o].txHash
         /\ exec[o].ended = "thrown"

\* The poller checks the step at the head of its selection.
Checks(o, k) ==
  /\ poller.pc = "checkStep"
  /\ Head(poller.queue) = <<o, k>>
  /\ poller' # poller

\* C9: a poller check of a PENDING_VALIDATION step whose transaction the
\* ledger reports validated with tesSUCCESS sets the step to
\* VALIDATED_SUCCESS with the validated result, and the operation to SUCCESS
\* when all its steps are then VALIDATED_SUCCESS.
C9_PollerPromotesValidatedStep ==
  [][\A o \in Requests : \A k \in 1..MaxStepNo :
       (/\ Checks(o, k)
        /\ steps[o][k].status = "PENDING_VALIDATION"
        /\ steps[o][k].tx_hash # 0
        /\ Lookup(steps[o][k].tx_hash).state = "validated"
        /\ Lookup(steps[o][k].tx_hash).result = "tesSUCCESS")
         => /\ steps'[o][k].status = "VALIDATED_SUCCESS"
            /\ steps'[o][k].validated_result = "tesSUCCESS"
            /\ AllValidatedSuccess(steps'[o])
                 => operations'[o].status = "SUCCESS"]_vars

\* ---------------------------------------------------------------- liveness
ExecNext(o) ==
  \/ ExecUpdateOperationStatus(o)
  \/ ExecGetSteps(o)
  \/ ExecPrepare(o)
  \/ ExecAutofill(o)
  \/ ExecSubmit(o)
  \/ ExecRecordSubmitted(o)
  \/ ExecLookup(o)
  \/ ExecRecord(o)
  \/ ExecSaveIssuance(o)
  \/ ExecCatch(o)
  \/ ExecGetStepById(o)

HandleNext(r) ==
  \/ HandleValidate(r)
  \/ HandleCheckKey(r)
  \/ HandleInsertOperation(r)
  \/ HandleInsertStep(r)

\* The event loop runs every continuation whose await has resolved, and the
\* interval timer keeps starting sweeps. The ledger is not under the
\* program's control and gets no fairness.
Fairness ==
  /\ \A r \in Requests : WF_vars(HandleNext(r))
  /\ \A o \in Requests : WF_vars(ExecNext(o))
  /\ WF_vars(PollerPoll)
  /\ WF_vars(PollerCheckStep)

\* All submissions carry one key: a single operation, its executor, the
\* poller and the ledger.
OneKeyInit == Init /\ \A r \in Requests : req[r].key = 1

FairSpec == OneKeyInit /\ [][Next]_vars /\ Fairness

StatusOf(o, k) == IF k <= Len(steps[o]) THEN steps[o][k].status ELSE "NONE"

ValidatedOnLedger(o, k) ==
  IF k <= Len(steps[o]) /\ steps[o][k].tx_hash # 0
    THEN /\ Lookup(steps[o][k].tx_hash).state = "validated"
         /\ Lookup(steps[o][k].tx_hash).result = "tesSUCCESS"
    ELSE FALSE

\* C10: a step that is PENDING_VALIDATION with a tx_hash whose transaction
\* the ledger reports validated with tesSUCCESS eventually becomes
\* VALIDATED_SUCCESS.
C10_PendingValidationIsPromoted ==
  \A o \in Requests : \A k \in 1..MaxStepNo :
    (StatusOf(o, k) = "PENDING_VALIDATION" /\ ValidatedOnLedger(o, k))
      ~> (StatusOf(o, k) = "VALIDATED_SUCCESS")

\* ------------------------------------------------------- status transitions
TerminalStep == {"VALIDATED_SUCCESS", "VALIDATED_FAILED"}

\* C11: a step whose status is VALIDATED_SUCCESS or VALIDATED_FAILED keeps
\* that status in every later step of the executor and of the poller.
C11_StepsNeverRegress ==
  [][\A o \in Requests : \A k \in 1..MaxStepNo :
       StatusOf(o, k) \in TerminalStep => StatusOf(o, k)' = StatusOf(o, k)]_vars

LegalEdges ==
  {<<"PENDING", "SUBMITTED">>,
   <<"SUBMITTED", "PENDING_VALIDATION">>,
   <<"PENDING_VALIDATION", "VALIDATED_SUCCESS">>,
   <<"PENDING_VALIDATION", "VALIDATED_FAILED">>}

\* C12: every change of a step's status is PENDING -> SUBMITTED,
\* SUBMITTED -> PENDING_VALIDATION, PENDING_VALIDATION -> VALIDATED_SUCCESS
\* or PENDING_VALIDATION -> VALIDATED_FAILED.
C12_OnlyLegalEdges ==
  [][\A o \in Requests : \A k \in 1..MaxStepNo :
       (StatusOf(o, k) # "NONE" /\ StatusOf(o, k)' # StatusOf(o, k))
         => <<StatusOf(o, k), StatusOf(o, k)'>> \in LegalEdges]_vars

TerminalOperation == {"SUCCESS", "FAILED"}

\* C13: an operation whose status is SUCCESS or FAILED keeps that status in
\* every later step of the executors and of the poller.
C13_TerminalOperationStays ==
  [][\A o \in Requests :
       (operations[o].present /\ operations[o].status \in TerminalOperation)
         => operations'[o].status = operations[o].status]_vars

\* An operation is SUCCESS and its executor has ended while the poller is
\* in the middle of a sweep and another operation's executor has thrown.
C13_Witness ==
  \E a, b \in OperationIds :
    /\ a # b
    /\ operations[a].status = "SUCCESS"
    /\ exec[a].pc = "done"
    /\ exec[b].ended = "thrown"
    /\ poller.pc = "checkStep"

\* C14: an operation row exists only together with its complete step set,
\* numbered 1..StepCount of its kind.
C14_OperationWithAllSteps ==
  \A o \in OperationIds :
    /\ Len(steps[o]) = StepCount(operations[o].type)
    /\ \A k \in 1..Len(steps[o]) : steps[o][k].step_no = k

\* C15: while the executor of a mint is in the routine of step 2, the
\* operation's issuance_id is not null.
C15_IssuanceKnownAtStepTwo ==
  \A o \in OperationIds :
    (operations[o].type = "mint" /\ InRoutine(o) /\ exec[o].idx = 2)
      => operations[o].issuance_id # "NULL"

\* The executor of a mint saw step 1 validated with tesSUCCESS, the
\* validated metadata carrying no mpt_issuance_id.
NoIssuanceIdExtracted(o) ==
  /\ operations[o].type = "mint"
  /\ Len(steps[o]) >= 1
  /\ steps[o][1].validated_result = "tesSUCCESS"
  /\ ~Lookup(TxHash(o, 1)).mpt_issuance_id

\* C16: when no issuance id can be extracted from step 1's validated
\* metadata, step 1 does not end as VALIDATED_SUCCESS and the operation is
\* FAILED at step 1 once the executor has ended.
C16_MissingIssuanceIdFailsStepOne ==
  \A o \in OperationIds :
    (NoIssuanceIdExtracted(o) /\ exec[o].pc = "done")
      => /\ steps[o][1].status # "VALIDATED_SUCCESS"
         /\ operations[o].status = "FAILED"
         /\ operations[o].error_message.step = 1

\* ------------------------------------------------------ wallet lock manager
OnWallet(w) == {c \in Calls : call[c].walletId = w}

SameWallet(c, d) == c # d /\ call[c].walletId = call[d].walletId

\* fn of the call is between its start and its completion.
Executing(c) == call[c].pc = "fn"

Started(c) == call[c].startedAt # 0

Ended(c) == call[c].endedAt # 0

\* C17: for every wallet at most one supplied function is executing at any
\* moment; of two functions run under one wallet's lock the earlier one has
\* completed before the later one starts, and when two calls are the only
\* ones on a wallet the function of the first caller runs first.
C17_OneFunctionPerWallet ==
  /\ \A w \in WalletIds : Cardinality({c \in OnWallet(w) : Executing(c)}) <= 1
  /\ \A c, d \in Calls :
       (SameWallet(c, d) /\ Started(c) /\ Started(d)
        /\ call[c].startedAt < call[d].startedAt)
         => (Ended(c) /\ call[c].endedAt < call[d].startedAt)
  /\ \A c, d \in Calls :
       (SameWallet(c, d) /\ OnWallet(call[c].walletId) = {c, d}
        /\ call[c].calledAt # 0 /\ call[c].calledAt < call[d].calledAt
        /\ Started(d))
         => (Ended(c) /\ call[c].endedAt < call[d].startedAt)

\* Two overlapping calls: the second was made while the first function was
\* executing, and both functions have run.
C17_Witness ==
  \E c, d \in Calls :
    /\ SameWallet(c, d)
    /\ call[c].startedAt < call[d].calledAt
    /\ call[d].calledAt < call[c].endedAt
    /\ call[c].endedAt < call[d].startedAt
    /\ Ended(d)

\* C18: callers of one wallet are granted the lock in the order of their
\* calls: a function has started only if the function of every caller that
\* asked for the same wallet earlier started before it.
C18_FifoGrant ==
  \A c, d \in Calls :
    (SameWallet(c, d) /\ call[c].calledAt # 0
     /\ call[c].calledAt < call[d].calledAt /\ Started(d))
      => (Started(c) /\ call[c].startedAt < call[d].startedAt)

\* The call holds the wallet's lock: from the start of its function until
\* its finally block has run.
Holding(c) == call[c].pc \in {"fn", "awaitFn"}

Pending(c) == call[c].pc \in {"awaitLock", "woken", "fn", "awaitFn"}

SuspendedOn(c) == {d \in Calls : \E i \in 1..Len(reactions[c]) : reactions[c][i] = d}

\* C19: isLocked(w) is true exactly while a call holds w's lock; when no
\* call is pending getLockedCount() is 0; and the job that ends a call,
\* whether its function returned or threw, removes the lock and queues the
\* resumption of every call suspended on it, in the order they suspended.
C19_ReleaseOnCompletion ==
  /\ [](\A w \in WalletIds : isLocked(w) <=> \E c \in OnWallet(w) : Holding(c))
  /\ []((\A c \in Calls : ~Pending(c)) => getLockedCount = 0)
  /\ [][\A c \in Calls :
          (Holding(c) /\ call'[c].pc \in Completed)
            => /\ ~isLocked(call[c].walletId)'
               /\ \A d \in SuspendedOn(c) : call'[d].pc = "woken"
               /\ jobs' = Tail(jobs) \o
                    [i \in 1..Len(reactions[c]) |->
                       [kind |-> "resume", call |-> reactions[c][i]]]]_vars

\* A function threw while another call was suspended on its lock; that call
\* then ran, and with every call over no wallet is locked.
C19_Witness ==
  \E c, d \in Calls :
    /\ SameWallet(c, d)
    /\ call[c].pc = "threw"
    /\ call[d].calledAt # 0
    /\ call[d].calledAt < call[c].endedAt
    /\ call[d].pc \in Completed
    /\ \A e \in Calls : ~Pending(e)
    /\ getLockedCount = 0

\* The call is made from inside the function of another call on the same
\* wallet.
Nested(n) ==
  IF call[n].parent = 0 THEN FALSE
  ELSE call[n].walletId = call[call[n].parent].walletId

\* C20: the function of a call nested inside a call on the same wallet has
\* started only if the outer call has completed, after the outer function
\* ended.
C20_NotReentrant ==
  \A n \in Calls :
    (Nested(n) /\ Started(n))
      => /\ call[call[n].parent].pc \in Completed
         /\ call[call[n].parent].endedAt < call[n].startedAt

\* A nested call whose function ran once the outer call had released.
C20_Witness ==
  \E n \in Calls : Nested(n) /\ Started(n) /\ Ended(n)

\* ------------------------------------------------------ request validation
\* The request is one the claim is about: a required field is missing, or
\* it is a mint carrying a deprecated field.
Invalid(r) ==
  \/ \E f \in RequiredFields(req[r].type) : f \notin req[r].fields
  \/ /\ req[r].type = "mint"
     /\ \E d \in DeprecatedFields : d \in req[r].fields

\* C21: a request whose body lacks a required field, or a mint whose body
\* carries a deprecated field, is answered 400, and the step that answers it
\* leaves the operation rows, the step rows and the executors unchanged; no
\* operation, step or executor ever belongs to such a request.
C21_InvalidRequestChangesNothing ==
  /\ [](\A r \in Requests :
          Invalid(r) =>
            /\ ~operations[r].present
            /\ steps[r] = <<>>
            /\ exec[r] = IdleExec
            /\ Returned(r) => req[r].response = BadRequest)
  /\ [][\A r \in Requests :
          (Invalid(r) /\ req'[r] # req[r])
            => /\ req'[r].response.code = 400
               /\ operations' = operations
               /\ steps' = steps
               /\ exec' = exec]_vars

\* A mint carrying a deprecated field was answered 400 while the other
\* request created its operation.
C21_Witness ==
  \E r, q \in Requests :
    /\ req[r].type = "mint"
    /\ req[r].fields \cap DeprecatedFields # {}
    /\ req[r].response.code = 400
    /\ req[q].response.code = 201
    /\ OperationIds = {q}

\* --------------------------------------------------- ledger and step status
\* C28: a step is VALIDATED_FAILED only if its recorded transaction is
\* validated on the ledger with a result other than tesSUCCESS.
C28_FailedOnlyOnLedgerFailure ==
  \A o \in OperationIds : \A k \in 1..Len(steps[o]) :
    steps[o][k].status = "VALIDATED_FAILED"
      => /\ steps[o][k].tx_hash # 0
         /\ Lookup(TxHash(o, k)).state = "validated"
         /\ Lookup(TxHash(o, k)).result # "tesSUCCESS"

\* submitTransaction is entered / returns the hash for the executor's step.
EntersSubmit(o) == exec[o].pc # "autofill" /\ exec'[o].pc = "autofill"

Submits(o) == exec[o].pc = "submit" /\ exec'[o].pc = "recordSubmitted"

\* C29: submitTransaction is called for a step only while the step is
\* PENDING with no tx_hash, and a transaction is handed to the ledger only
\* for a step the ledger has not seen: no step is submitted twice.
C29_StepSubmittedAtMostOnce ==
  [][\A o \in Requests :
       /\ EntersSubmit(o)
            => /\ steps[o][exec'[o].idx].status = "PENDING"
               /\ steps[o][exec'[o].idx].tx_hash = 0
               /\ Lookup(TxHash(o, exec'[o].idx)).state = "absent"
       /\ Submits(o) => Lookup(TxHash(o, exec[o].idx)).state = "absent"]_vars

\* A replay was answered for an operation whose step had been submitted and
\* whose executor has ended with that step failed.
C29_Witness ==
  \E r \in Requests : \E o \in OperationIds :
    /\ req[r].response.code = 200
    /\ req[r].response.operationId = o
    /\ Len(steps[o]) >= 1
    /\ steps[o][1].tx_hash # 0
    /\ steps[o][1].status = "VALIDATED_FAILED"
    /\ exec[o].pc = "done"

\* C30: a step is VALIDATED_SUCCESS only if it records the hash of its own
\* transaction and the ledger reports that transaction validated with
\* tesSUCCESS.
C30_SuccessOnlyOnLedgerSuccess ==
  \A o \in OperationIds : \A k \in 1..Len(steps[o]) :
    steps[o][k].status = "VALIDATED_SUCCESS"
      => /\ steps[o][k].tx_hash = TxHash(o, k)
         /\ steps[o][k].validated_result = "tesSUCCESS"
         /\ Lookup(steps[o][k].tx_hash).state = "validated"
         /\ Lookup(steps[o][k].tx_hash).result = "tesSUCCESS"

\* A transfer whose first step was validated while the second one's
\* transaction failed on the ledger.
C30_Witness ==
  \E o \in OperationIds :
    /\ operations[o].type = "transfer"
    /\ Len(steps[o]) = 2
    /\ steps[o][1].status = "VALIDATED_SUCCESS"
    /\ steps[o][2].validated_result = "tecNO_AUTH"

\* ------------------------------------------------------------- termination
\* The ledger eventually validates every transaction submitted to it, on top
\* of the event loop and the interval timer.
LedgerFairSpec ==
  /\ OneKeyInit
  /\ [][Next]_vars
  /\ Fairness
  /\ \A h \in Hashes : WF_vars(LedgerValidate(h))

StatusOfOperation(o) ==
  IF operations[o].present THEN operations[o].status ELSE "NONE"

\* C22: an operation whose executor was started eventually has status
\* SUCCESS or FAILED.
C22_OperationTerminates ==
  \A o \in Requests :
    (exec[o].pc # "idle") ~> (StatusOfOperation(o) \in {"SUCCESS", "FAILED"})

\* ----------------------------------------------------------------- restart
\* The process stops and is started again: the handlers in flight, the
\* background executions and the sweep in progress are gone with the
\* process, the poller is constructed anew, and the database and the ledger
\* keep what they hold. A request in "validate" has not been sent yet.
Crash ==
  /\ \/ \E r \in Requests : req[r].pc \notin {"validate", "done", "dropped"}
     \/ \E o \in Requests : exec[o] # IdleExec
     \/ poller.pc # "idle"
  /\ req' = [r \in Requests |->
       IF req[r].pc \in {"validate", "done", "dropped"}
         THEN req[r]
         ELSE [req[r] EXCEPT !.pc = "dropped"]]
  /\ exec' = [o \in Requests |-> IdleExec]
  /\ poller' = [pc |-> "idle", queue |-> <<>>]
  /\ UNCHANGED <<operations, steps, ledger, libraryVars>>

CrashNext == Next \/ Crash

CrashSpec == OneKeyInit /\ [][CrashNext]_vars

\* Operation o has step rows, all of them PENDING, and the process that was
\* creating or executing it is gone: its handler is not in flight and no
\* execution of it exists in the running process.
Orphaned(o) ==
  /\ operations[o].present
  /\ req[o].pc \in {"done", "dropped"}
  /\ Len(steps[o]) >= 1
  /\ \A k \in 1..Len(steps[o]) : steps[o][k].status = "PENDING"
  /\ exec[o] = IdleExec

\* The handler of r answers a replay for operation o.
Replays(r, o) ==
  /\ req[r].pc = "check"
  /\ req'[r].pc = "done"
  /\ req'[r].response.code = 200
  /\ req'[r].response.operationId = o

\* C23: a submission carrying the idempotency key of an operation whose
\* steps are still PENDING after a restart starts the executor for that
\* operation.
C23_ReplayResumesOrphan ==
  [][\A r, o \in Requests :
       (Orphaned(o) /\ Replays(r, o)) => exec'[o].pc # "idle"]_vars

\* ------------------------------------------------------- the secret manager
\* The call that is returning or throwing in this step.
Settles(op, walletId) ==
  /\ secretCall'.pc = "idle"
  /\ secretCall' # secretCall
  /\ secretCall'.op = op
  /\ secretCall'.walletId = walletId

\* C24: neither the cache nor the wallets table ever holds an entry for
\* "issuer"; retrieveSecret("issuer") returns the issuer seed and
\* storeSecret("issuer", s) throws, and both leave the cache and the table
\* as they were.
C24_IssuerNeverStored ==
  /\ [](~cache["issuer"].present /\ ~wallets["issuer"].present)
  /\ [][/\ Settles("retrieveSecret", "issuer")
            => /\ secretCall'.result = [kind |-> "returned", value |-> IssuerSeed]
               /\ secretCall.pc = "idle"
               /\ cache' = cache
               /\ wallets' = wallets
        /\ Settles("storeSecret", "issuer")
            => /\ secretCall'.result.kind = "thrown"
               /\ secretCall.pc = "idle"
               /\ cache' = cache
               /\ wallets' = wallets]_vars

\* Both calls on "issuer" were made while a user's secret sat in the cache.
C24_Witness ==
  /\ secretCall.op = "storeSecret"
  /\ secretCall.walletId = "issuer"
  /\ secretCall.result.kind = "thrown"
  /\ cache["u1"].present
  /\ stored["u1"] # "none"

\* C25: a retrieveSecret(w) that returns, for a wallet w with a row for
\* which storeSecret(w, s) has completed, returns the s of the latest such
\* call.
C25_RetrieveReturnsLatestStored ==
  [][\A w \in WalletNames \ {"issuer"} :
       (/\ Settles("retrieveSecret", w)
        /\ wallets[w].present
        /\ stored[w] # "none")
         => secretCall'.result = [kind |-> "returned", value |-> stored[w]]]_vars

\* retrieveSecret(w) is called for a user wallet: this is its get(w).
Gets(w) ==
  /\ secretCall.pc = "idle"
  /\ secretCall'.op = "retrieveSecret"
  /\ secretCall'.walletId = w
  /\ secretCall' # secretCall

\* C26: set(w, s) records s with expiry now + TTL; get(w) returns the
\* recorded secret and keeps the entry when the time is before the expiry,
\* and otherwise returns null and leaves no entry for w; cleanup removes
\* nothing but entries whose expiry has come.
C26_CacheHonoursTtl ==
  [][\A w \in WalletNames \ {"issuer"} :
       /\ Gets(w) =>
            IF cache[w].present /\ now < cache[w].expiresAt
              THEN /\ secretCall'.pc = "idle"
                   /\ secretCall'.result =
                        [kind |-> "returned", value |-> cache[w].secret]
                   /\ cache' = cache
              ELSE /\ secretCall'.pc = "select"
                   /\ ~cache'[w].present
       /\ (secretCall.pc = "decrypt" /\ secretCall.walletId = w
             /\ secretCall'.result.kind = "returned")
            => cache'[w] = [present |-> TRUE,
                            secret |-> secretCall'.result.value,
                            expiresAt |-> now + TtlMs]
       /\ (secretCall' = secretCall /\ now' = now)
            => cache'[w] = IF cache[w].present /\ now < cache[w].expiresAt
                             THEN cache[w]
                             ELSE NoEntry]_vars

\* A secret set one TTL less a millisecond ago was served from the cache.
C26_Witness ==
  /\ cache["u1"].present
  /\ cache["u1"].expiresAt = now + 1
  /\ secretCall.pc = "idle"
  /\ secretCall.op = "retrieveSecret"
  /\ secretCall.walletId = "u1"
  /\ secretCall.result = [kind |-> "returned", value |-> cache["u1"].secret]

\* ------------------------------------------------------------------ logger
\* The context holds, at some depth, a key that is a listed word or a
\* string longer than 20 characters that starts with 's'.
RECURSIVE HoldsSensitive(_)
HoldsSensitive(obj) ==
  \E i \in 1..Len(obj) :
    \/ obj[i].key \in sensitiveKeys
    \/ /\ obj[i].value.type = "object"
       /\ HoldsSensitive(obj[i].value.entries)
    \/ /\ obj[i].value.type = "string"
       /\ obj[i].value.length > 20
       /\ obj[i].value.first = "s"

\* C27: a call at an enabled level whose context holds a listed key or a
\* seed-shaped string writes the redaction notice and nothing of the
\* context.
C27_SensitiveContextIsRedacted ==
  (/\ logger.called
   /\ logger.level >= logger.minLevel
   /\ HoldsSensitive(logger.context))
    => logger.output = RedactionNotice

\* ---------------------------------------------------------------- tx_hash
NeedsHash == {"SUBMITTED", "PENDING_VALIDATION", "VALIDATED_SUCCESS"}

\* C33: a step that is SUBMITTED, PENDING_VALIDATION or VALIDATED_SUCCESS
\* has a tx_hash, and a recorded tx_hash is never changed or cleared.
C33_HashKeptOnceRecorded ==
  /\ [](\A o \in OperationIds : \A k \in 1..Len(steps[o]) :
          steps[o][k].status \in NeedsHash => steps[o][k].tx_hash # 0)
  /\ [][\A o \in OperationIds : \A k \in 1..Len(steps[o]) :
          steps[o][k].tx_hash # 0
            => steps'[o][k].tx_hash = steps[o][k].tx_hash]_vars

\* A step with a recorded hash went through a later status update, by the
\* routine's catch block after the inline wait timed out.
C33_Witness ==
  \E o \in OperationIds :
    /\ exec[o].pc = "done"
    /\ exec[o].vstatus = "timeout"
    /\ steps[o][exec[o].idx].status = "VALIDATED_FAILED"
    /\ steps[o][exec[o].idx].tx_hash = TxHash(o, exec[o].idx)

\* --------------------------------------------------------- issuance id
\* Steps 2 and 3 of a mint: the authorize and the payment.
NeedsIssuance(o, k) == operations[o].type = "mint" /\ k >= 2

\* C34: submitTransaction is entered for step 2 or 3 of a mint only when
\* the operation has an issuance id; while it has none, such a step is
\* PENDING or VALIDATED_FAILED with no tx_hash and nothing of it is on the
\* ledger.
C34_NoSubmitWithoutIssuance ==
  /\ [](\A o \in OperationIds : \A k \in 1..Len(steps[o]) :
          (NeedsIssuance(o, k) /\ operations[o].issuance_id = "NULL")
            => /\ steps[o][k].status \in {"PENDING", "VALIDATED_FAILED"}
               /\ steps[o][k].tx_hash = 0
               /\ Lookup(TxHash(o, k)).state = "absent")
  /\ [][\A o \in OperationIds :
          (EntersSubmit(o) /\ NeedsIssuance(o, exec'[o].idx))
            => operations[o].issuance_id # "NULL"]_vars

\* A mint whose first step succeeded without an issuance id and whose
\* second step ended VALIDATED_FAILED with nothing submitted.
C34_Witness ==
  \E o \in OperationIds :
    /\ operations[o].type = "mint"
    /\ operations[o].issuance_id = "NULL"
    /\ Len(steps[o]) = 3
    /\ steps[o][1].status = "VALIDATED_SUCCESS"
    /\ steps[o][2].status = "VALIDATED_FAILED"
    /\ steps[o][2].tx_hash = 0
    /\ exec[o].pc = "done"

\* ------------------------------------------------------- key across kinds
\* The handler of r finds the key on an operation of another kind.
FindsOtherKind(r, o) ==
  /\ req[r].pc = "check"
  /\ req'[r] # req[r]
  /\ o \in RowsByKey(req[r].key)
  /\ operations[o].type # req[r].type

\* C35: a submission whose key is on an operation of another kind is
\* answered 200 with that operation's id, and the operation rows, the step
\* rows and the executors are left as they are; the kind of an operation
\* never changes.
C35_KeyBoundToFirstOperation ==
  [][/\ \A r, o \in Requests :
          FindsOtherKind(r, o)
            => /\ req'[r].response.code = 200
               /\ req'[r].response.operationId = o
               /\ operations' = operations
               /\ steps' = steps
               /\ exec' = exec
     /\ \A o \in OperationIds :
          /\ operations'[o].present
          /\ operations'[o].type = operations[o].type
          /\ operations'[o].idempotency_key = operations[o].idempotency_key]_vars

\* A transfer carrying the key of a mint was answered with the mint.
C35_Witness ==
  \E r, o \in Requests :
    /\ req[r].type = "transfer"
    /\ req[r].response.code = 200
    /\ req[r].response.operationId = o
    /\ operations[o].present
    /\ operations[o].type = "mint"
    /\ req[o].response.code = 201

\* ---------------------------------------------------------------- clearAll
\* C40: with clearAll() among the calls, at most one function supplied for
\* a wallet is executing at any moment.
C40_ExclusionSurvivesClearAll ==
  \A c, d \in Calls :
    (c # d /\ SameWallet(c, d)) => ~(Executing(c) /\ Executing(d))

\* ------------------------------------------------ claims on waitForValidation
\* What the lookups of the observed call have reported.
Reported == {wait.reports[k] : k \in 1..Len(wait.reports)}

ReportedValidated(report) == report.error = "none" /\ report.state = "validated"

LastReport ==
  IF wait.reports = <<>> THEN NoReport ELSE wait.reports[Len(wait.reports)]

\* C31: waitForValidation returns SUCCESS only when a lookup reported the
\* transaction validated with tesSUCCESS, FAILED only when a lookup reported
\* it validated with another result code, and TIMEOUT only when no lookup of
\* the call reported it validated; after a lookup that reported it
\* unvalidated or not found the call has not returned.
C31_StatusFollowsReports ==
  /\ wait.status = "success" =>
       \E report \in Reported :
         ReportedValidated(report) /\ report.result = "tesSUCCESS"
  /\ wait.status = "failed" =>
       \E report \in Reported :
         ReportedValidated(report) /\ report.result # "tesSUCCESS"
  /\ wait.status = "timeout" =>
       \A report \in Reported : ~ReportedValidated(report)
  /\ (wait.pc = "sleep" \/ wait.status = "timeout") =>
       ~ReportedValidated(LastReport)
  /\ (wait.reports # <<>> /\ ~ReportedValidated(LastReport)) =>
       (wait.pc \in {"sleep", "lookup"} \/ wait.status = "timeout")
  /\ wait.status = "timeout" =>
       ~WithinBudget(wait.elapsed, wait.timeoutMs)

\* A call with the default budget returned FAILED after lookups that found
\* the transaction unvalidated.
C31_Witness ==
  /\ wait.status = "failed"
  /\ wait.transactionResult = "tecNO_AUTH"
  /\ \E report \in Reported : report.error = "none" /\ report.state = "pending"

\* C32: a lookup that throws (the not-found sentinel or any other error)
\* does not end the wait and fails nothing: the call sleeps and polls on,
\* and it returns only on a validated report or with the budget used up.
C32_LookupErrorsAreTransient ==
  /\ [][(wait.pc = "lookup" /\ wait'.pc # "lookup"
           /\ wait'.reports[Len(wait'.reports)].error # "none") =>
          (wait'.pc = "sleep" /\ wait'.status = "none")]_vars
  /\ [](wait.pc = "returned" =>
          \/ ReportedValidated(LastReport) /\ wait.status \in {"success", "failed"}
          \/ ~WithinBudget(wait.elapsed, wait.timeoutMs) /\ wait.status = "timeout")

\* A call returned SUCCESS although lookups before threw both kinds of error.
C32_Witness ==
  /\ wait.status = "success"
  /\ \E report \in Reported : report.error = "txnNotFound"
  /\ \E report \in Reported : report.error = "other"

\* ------------------------------------------- claims on the poller's sweeps
\* A checkStep call for row i settles in this step.
TableChecks(i) ==
  /\ sweep.pc = "checkStep"
  /\ sweep'.clock # sweep.clock
  /\ IF sweep.queue # <<>> THEN Head(sweep.queue) = i ELSE FALSE

\* C36: after stop() no new sweep is started, and a sweep in progress checks
\* no further step after the one being checked when stop() was called: the
\* check that settles on a stopped poller is the last of its sweep.
C36_StopEndsTheSweep ==
  [][/\ (~sweep.isRunning) => sweep'.sweeps = sweep.sweeps
     /\ (~sweep.isRunning /\ \E i \in RowIds : TableChecks(i)) =>
          sweep'.pc = "idle"]_vars

\* C37: a check of a step whose transaction is not yet validated changes
\* that step's last_checked_at and nothing else: not its status, tx_hash or
\* validated_result, not its operation's status, and no other row.
C37_PendingCheckOnlyStamps ==
  [][\A i \in RowIds :
       (TableChecks(i) /\ ~sweep'.checked.failed
          /\ sweep'.checked.state # "validated") =>
         /\ rows'[i] = [rows[i] EXCEPT !.last_checked_at = sweep'.clock,
                                       !.passed_over = 0]
         /\ rows'[i].last_checked_at # rows[i].last_checked_at
         /\ \A j \in RowIds \ {i} : rows'[j] = rows[j]]_vars

\* A row was just checked with its transaction still pending on the ledger.
C37_Witness ==
  /\ sweep.checked.row \in RowIds
  /\ sweep.checked.state = "pending"
  /\ ~sweep.checked.failed
  /\ rows[sweep.checked.row].last_checked_at = sweep.clock

\* C38: a check that throws is contained: no row is changed by it, the
\* remaining rows of the sweep are still to be checked, and the poller keeps
\* running for later sweeps.
C38_FailedCheckIsContained ==
  [][\A i \in RowIds :
       (TableChecks(i) /\ sweep'.checked.failed) =>
         /\ rows' = rows
         /\ sweep'.queue = Tail(sweep.queue)
         /\ sweep'.pc = (IF Tail(sweep.queue) = <<>> THEN "idle" ELSE "checkStep")
         /\ sweep'.isRunning = sweep.isRunning]_vars

\* After a check threw, the next row of the same sweep was checked, and a
\* later sweep ran.
C38_Witness ==
  /\ sweep.errors >= 1
  /\ sweep.sweeps >= 2
  /\ sweep.checked.row \in RowIds
  /\ ~sweep.checked.failed
  /\ \E i \in RowIds : rows[i].last_checked_at = i

====
